---- MODULE Spec2Model ----
(***************************************************************************)
(* Fan-out / fan-in orchestration of src/api/synthesizer.js together with  *)
(* the provider adapters of src/api/*.js it calls.                         *)
(*                                                                         *)
(* JavaScript values are encoded as follows.  A text is a TLA+ string.     *)
(* null and undefined are the reserved strings NULL and UNDEFINED, which   *)
(* no text of the model equals.  A promise is a record with status         *)
(* "pending", "fulfilled" (with its value) or "rejected" (with its reason);*)
(* the field that does not apply holds Nothing.  A thrown                  *)
(* value is [type |-> "Error", message |-> m], [type |-> "string"] (a      *)
(* thrown primitive, whose .message is undefined) or [type |-> "nullish"]  *)
(* (throw null / undefined, whose .message read throws a TypeError).       *)
(* An object keyed by strings (the ResultSet) is the sequence of its       *)
(* <<key, value>> entries in insertion order, as Object.entries lists it.  *)
(***************************************************************************)
EXTENDS Integers, Sequences, FiniteSets, TLC

(* ------------------------------ bounds -------------------------------- *)
MaxSelected == 2
MaxConfigured == 2
MaxChunks == 2
MaxTime == 1

(* --------------------------- JS value encoding ------------------------ *)
NULL == "<null>"
UNDEFINED == "<undefined>"
NoLatency == 0 - 1

Truthy(v) == v \notin {NULL, UNDEFINED, ""}

OrElse(a, b) == IF Truthy(a) THEN a ELSE b

Range(s) == {s[i] : i \in 1..Len(s)}

JsError(m) == [type |-> "Error", message |-> m]

Nothing == [type |-> "nothing"]

Fulfilled(v) == [status |-> "fulfilled", value |-> v, reason |-> Nothing]

Rejected(r) == [status |-> "rejected", value |-> Nothing, reason |-> r]

Pending == [status |-> "pending", value |-> Nothing, reason |-> Nothing]

(* error.message as the catch blocks read it; a nullish thrown value has   *)
(* no readable .message (the read itself throws), handled by the callers.  *)
MessageOf(err) == IF err.type = "Error" THEN err.message ELSE UNDEFINED

(* ------------------------------ registry ------------------------------ *)
(* Synthesizer.models; each icon, an emoji in the source, is written as    *)
(* its ASCII name                                                          *)
models ==
  [chatgpt |-> [name |-> "ChatGPT", icon |-> "robot", api |-> "OpenAIAPI", color |-> "#10a37f"],
   gemini  |-> [name |-> "Gemini", icon |-> "sparkles", api |-> "GeminiAPI", color |-> "#4285f4"],
   claude  |-> [name |-> "Claude", icon |-> "brain", api |-> "ClaudeAPI", color |-> "#cc785c"],
   grok    |-> [name |-> "Grok", icon |-> "x", api |-> "GrokAPI", color |-> "#ffffff"]]

ModelKeys == DOMAIN models

(* keys a caller may pass: the registered ones and one the registry does   *)
(* not know                                                                *)
RequestKeys == ModelKeys \cup {"llama"}

(* --------------------------- text helpers ------------------------------ *)
(* String.prototype.includes *)
Includes(s, sub) ==
  \E i \in 1..(Len(s) - Len(sub) + 1) : SubSeq(s, i, i + Len(sub) - 1) = sub

Digit(d) == SubSeq("0123456789", d + 1, d + 1)

RECURSIVE NumToStr(_)
(* template-literal conversion of a non-negative integer *)
NumToStr(n) == IF n < 10 THEN Digit(n) ELSE NumToStr(n \div 10) \o Digit(n % 10)

(* ------------------- what the network can answer ---------------------- *)
(* fetch either rejects (network / CORS failure) or resolves with an HTTP *)
(* response.  A non-2xx response carries the provider's error text or not; *)
(* a 2xx response carries a body of one of the shapes below.               *)
ErrTexts == {UNDEFINED, "quota exceeded", "CORS requests are not allowed"}

Statuses == {500}

ContentTexts == {"hi"}

(* "text": a completion with text; "empty": a first choice/candidate/block *)
(* without text; "none": an empty list of choices/candidates/blocks;       *)
(* "malformed": a JSON object without that list; "notjson": not JSON.      *)
DataShapes == {"text", "empty", "none", "malformed", "notjson"}

FetchFail == [kind |-> "fetchfail", ok |-> FALSE, status |-> 0, errText |-> UNDEFINED,
              shape |-> "none", text |-> UNDEFINED]

HttpError(st, t) == [kind |-> "http", ok |-> FALSE, status |-> st, errText |-> t,
                     shape |-> "none", text |-> UNDEFINED]

HttpOk(sh, t) == [kind |-> "http", ok |-> TRUE, status |-> 200, errText |-> UNDEFINED,
                  shape |-> sh, text |-> t]

NetResponses ==
  {FetchFail}
  \cup {HttpError(st, t) : st \in Statuses, t \in ErrTexts}
  \cup {HttpOk("text", t) : t \in ContentTexts}
  \cup {HttpOk(sh, UNDEFINED) : sh \in DataShapes \ {"text"}}

FailedToFetch == JsError("Failed to fetch")

JsonSyntaxError == JsError("Unexpected token < in JSON")

(* a completion object as queryModel reads it: .content and .usage *)
Completion(c, u) == [type |-> "object", content |-> c, usage |-> u]

(* response.body, a ReadableStream: it has no .content and no .usage *)
ResponseBody == [type |-> "object", content |-> UNDEFINED, usage |-> UNDEFINED]

UsageOf(net) == IF net.shape \in {"malformed", "notjson"} THEN UNDEFINED ELSE "usage"

(* ------------------------------ adapters ------------------------------ *)
(* Each chat operator gives the settled promise of adapter.chat for a     *)
(* credential state, the options and the network's answer.                 *)
GrokChat(hasKey, options, net) ==
  IF ~hasKey THEN Rejected(JsError("Grok API key not configured"))
  ELSE IF net.kind = "fetchfail" THEN Rejected(FailedToFetch)
  ELSE IF ~net.ok
    THEN Rejected(JsError(OrElse(net.errText, "Grok API error: " \o NumToStr(net.status))))
  ELSE IF options.stream THEN Fulfilled(ResponseBody)
  ELSE IF net.shape = "notjson" THEN Rejected(JsonSyntaxError)
  ELSE IF net.shape = "malformed"
    THEN Rejected(JsError("Cannot read properties of undefined (reading '0')"))
  ELSE Fulfilled(Completion(OrElse(net.text, ""), UsageOf(net)))

GeminiChat(hasKey, options, net) ==
  IF ~hasKey THEN Rejected(JsError("Gemini API key not configured"))
  ELSE IF net.kind = "fetchfail" THEN Rejected(FailedToFetch)
  ELSE IF ~net.ok
    THEN Rejected(JsError(OrElse(net.errText, "Gemini API error: " \o NumToStr(net.status))))
  ELSE IF net.shape = "notjson" THEN Rejected(JsonSyntaxError)
  ELSE IF net.shape \in {"text", "empty"}
    THEN Fulfilled(Completion(OrElse(net.text, ""), UsageOf(net)))
  ELSE Rejected(JsError("No response from Gemini"))

ClaudeCorsChat ==
  "Claude API requires CORS configuration. The request was blocked by the browser. Consider using a backend proxy."

ClaudeCorsStream ==
  "Claude API requires CORS configuration. Consider using a backend proxy."

(* the catch block of ClaudeAPI.chat / streamChat *)
ClaudeCatch(err, corsMessage) ==
  IF Includes(err.message, "Failed to fetch") \/ Includes(err.message, "CORS")
  THEN JsError(corsMessage)
  ELSE err

ClaudeChat(hasKey, options, net) ==
  IF ~hasKey THEN Rejected(JsError("Claude API key not configured"))
  ELSE IF net.kind = "fetchfail" THEN Rejected(ClaudeCatch(FailedToFetch, ClaudeCorsChat))
  ELSE IF ~net.ok
    THEN Rejected(ClaudeCatch(
           JsError(OrElse(net.errText, "Claude API error: " \o NumToStr(net.status))),
           ClaudeCorsChat))
  ELSE IF net.shape = "notjson" THEN Rejected(ClaudeCatch(JsonSyntaxError, ClaudeCorsChat))
  ELSE Fulfilled(Completion(OrElse(net.text, ""), UsageOf(net)))

(* api/openai.js is not among the sources; its chat follows the provider  *)
(* capability contract: a completion, or a typed error.                    *)
OpenAIChat(hasKey, options, net) ==
  IF ~hasKey THEN Rejected(JsError("OpenAI API key not configured"))
  ELSE IF net.kind = "fetchfail" THEN Rejected(FailedToFetch)
  ELSE IF ~net.ok
    THEN Rejected(JsError(OrElse(net.errText, "OpenAI API error: " \o NumToStr(net.status))))
  ELSE IF net.shape \in {"notjson", "malformed"} THEN Rejected(JsonSyntaxError)
  ELSE Fulfilled(Completion(OrElse(net.text, ""), UsageOf(net)))

(* window[modelInfo.api].chat(messages, options) *)
ApiChat(k, hasKey, options, net) ==
  CASE k = "grok" -> GrokChat(hasKey, options, net)
    [] k = "gemini" -> GeminiChat(hasKey, options, net)
    [] k = "claude" -> ClaudeChat(hasKey, options, net)
    [] k = "chatgpt" -> OpenAIChat(hasKey, options, net)

(* ----------------------------- streaming ------------------------------ *)
(* One line of a server-sent-event body after chunk.split('\n').  data:    *)
(* the line starts with 'data: '.  payload: "json" (parses to an event of  *)
(* the given type carrying the given delta text, UNDEFINED when it carries *)
(* none), "[DONE]" (the end marker) or "invalid" (does not parse).         *)
SseLine(d, p, ty, t) == [data |-> d, payload |-> p, type |-> ty, text |-> t]

(* The provider streams its answer in pieces: the n-th fragment it sends   *)
(* is the n-th letter, so that the order of the fragments shows in texts.  *)
FragmentAt(n) == SubSeq("abcdefgh", n, n)

LineKinds == {"text", "notext", "stop", "done", "invalid", "comment"}

(* the line of a kind; a "text" line carries the fragment t *)
LineOf(kind, t) ==
  CASE kind = "text" -> SseLine(TRUE, "json", "content_block_delta", t)
    [] kind = "notext" -> SseLine(TRUE, "json", "content_block_delta", UNDEFINED)
    [] kind = "stop" -> SseLine(TRUE, "json", "message_stop", UNDEFINED)
    [] kind = "done" -> SseLine(TRUE, "[DONE]", "none", UNDEFINED)
    [] kind = "invalid" -> SseLine(TRUE, "invalid", "none", UNDEFINED)
    [] kind = "comment" -> SseLine(FALSE, "invalid", "none", UNDEFINED)

(* what one reader.read() can deliver: one line of any kind, or two lines *)
(* at once of which each carries a text or fails to parse                  *)
ReadShapes ==
  {<<a>> : a \in LineKinds}
  \cup {<<a, b>> : a \in {"text", "invalid"}, b \in {"text", "invalid"}}

RECURSIVE ReadLines(_, _)
(* the lines of a read of the given shape when n fragments were sent before *)
ReadLines(shape, n) ==
  IF shape = <<>> THEN <<>>
  ELSE IF Head(shape) = "text"
       THEN <<LineOf("text", FragmentAt(n + 1))>> \o ReadLines(Tail(shape), n + 1)
       ELSE <<LineOf(Head(shape), UNDEFINED)>> \o ReadLines(Tail(shape), n)

(* The text a line contributes (the `content` local of the loop body), ""  *)
(* when the line is skipped or carries no text.                            *)
GrokLineContent(line) ==
  IF ~line.data THEN ""
  ELSE IF line.payload = "[DONE]" THEN ""
  ELSE IF line.payload = "invalid" THEN ""
  ELSE OrElse(line.text, "")

GeminiLineContent(line) ==
  IF ~line.data THEN ""
  ELSE IF line.payload # "json" THEN ""
  ELSE OrElse(line.text, "")

ClaudeLineContent(line) ==
  IF ~line.data THEN ""
  ELSE IF line.payload # "json" THEN ""
  ELSE IF line.type = "content_block_delta" THEN OrElse(line.text, "")
  ELSE ""

(* api/openai.js is not among the sources: per the capability contract a  *)
(* frame that fails to parse is skipped, every decoded fragment delivered. *)
OpenAILineContent(line) ==
  IF ~line.data THEN ""
  ELSE IF line.payload # "json" THEN ""
  ELSE OrElse(line.text, "")

LineContent(k, line) ==
  CASE k = "grok" -> GrokLineContent(line)
    [] k = "gemini" -> GeminiLineContent(line)
    [] k = "claude" -> ClaudeLineContent(line)
    [] k = "chatgpt" -> OpenAILineContent(line)

(* the onChunk(content, fullContent) calls a sequence of lines causes,     *)
(* starting from the accumulated text full: `if (content) { fullContent   *)
(* += content; onChunk(content, fullContent); }`.  throws: onChunk throws; *)
(* the exception is swallowed by the `catch (e)` around the line, after    *)
(* the append, so the loop goes on with the next line.                     *)
RECURSIVE ChunkCalls_noAccumulate(_, _, _, _)
(* a loop that hands onChunk the fragment where the cumulative text goes *)
ChunkCalls_noAccumulate(k, lines, full, throws) ==
  IF lines = <<>> THEN <<>>
  ELSE LET content == LineContent(k, Head(lines))
       IN IF content # ""
          THEN <<[chunk |-> content, full |-> content]>>
               \o ChunkCalls_noAccumulate(k, Tail(lines), full \o content, throws)
          ELSE ChunkCalls_noAccumulate(k, Tail(lines), full, throws)

RECURSIVE ChunkCalls_stopAtInvalid(_, _, _, _)
(* a loop whose try/catch is around the whole for: a line that fails to   *)
(* parse ends the handling of the lines of this read                       *)
ChunkCalls_stopAtInvalid(k, lines, full, throws) ==
  IF lines = <<>> THEN <<>>
  ELSE IF Head(lines).data /\ Head(lines).payload = "invalid" THEN <<>>
  ELSE LET content == LineContent(k, Head(lines))
       IN IF content # ""
          THEN <<[chunk |-> content, full |-> full \o content]>>
               \o ChunkCalls_stopAtInvalid(k, Tail(lines), full \o content, throws)
          ELSE ChunkCalls_stopAtInvalid(k, Tail(lines), full, throws)

RECURSIVE ChunkCalls_throwEndsRead(_, _, _, _)
(* a loop without the try/catch around the line: an exception of onChunk  *)
(* ends the handling of the lines of this read                             *)
ChunkCalls_throwEndsRead(k, lines, full, throws) ==
  IF lines = <<>> THEN <<>>
  ELSE LET content == LineContent(k, Head(lines))
       IN IF content # ""
          THEN <<[chunk |-> content, full |-> full \o content]>>
               \o (IF throws THEN <<>>
                   ELSE ChunkCalls_throwEndsRead(k, Tail(lines), full \o content, throws))
          ELSE ChunkCalls_throwEndsRead(k, Tail(lines), full, throws)

RECURSIVE ChunkCalls(_, _, _, _)
ChunkCalls(k, lines, full, throws) ==
  IF lines = <<>> THEN <<>>
  ELSE LET content == LineContent(k, Head(lines))
       IN IF content # ""
          THEN <<[chunk |-> content, full |-> full \o content]>>
               \o ChunkCalls(k, Tail(lines), full \o content, throws)
          ELSE ChunkCalls(k, Tail(lines), full, throws)

FullAfter(full, chunkCalls) ==
  IF chunkCalls = <<>> THEN full ELSE chunkCalls[Len(chunkCalls)].full

(* the text fragments the provider put on the wire in these lines, in the *)
(* order it sent them                                                      *)
EmittedTexts(lines) ==
  LET carries(l) == l.data /\ l.payload = "json" /\ Truthy(l.text)
  IN [n \in 1..Len(SelectSeq(lines, carries)) |-> SelectSeq(lines, carries)[n].text]

(* the request phase of streamChat: "open" when the body can be read, else *)
(* the rejection of streamChat                                             *)
StreamOpened == [status |-> "open", value |-> Nothing, reason |-> Nothing]

GrokStreamOpen(hasKey, net) ==
  IF ~hasKey THEN Rejected(JsError("Grok API key not configured"))
  ELSE IF net.kind = "fetchfail" THEN Rejected(FailedToFetch)
  ELSE IF ~net.ok
    THEN Rejected(JsError(OrElse(net.errText, "Grok API error: " \o NumToStr(net.status))))
  ELSE StreamOpened

GeminiStreamOpen(hasKey, net) ==
  IF ~hasKey THEN Rejected(JsError("Gemini API key not configured"))
  ELSE IF net.kind = "fetchfail" THEN Rejected(FailedToFetch)
  ELSE IF ~net.ok
    THEN Rejected(JsError(OrElse(net.errText, "Gemini API error: " \o NumToStr(net.status))))
  ELSE StreamOpened

ClaudeStreamOpen(hasKey, net) ==
  IF ~hasKey THEN Rejected(JsError("Claude API key not configured"))
  ELSE IF net.kind = "fetchfail" THEN Rejected(ClaudeCatch(FailedToFetch, ClaudeCorsStream))
  ELSE IF ~net.ok
    THEN Rejected(ClaudeCatch(
           JsError(OrElse(net.errText, "Claude API error: " \o NumToStr(net.status))),
           ClaudeCorsStream))
  ELSE StreamOpened

OpenAIStreamOpen(hasKey, net) ==
  IF ~hasKey THEN Rejected(JsError("OpenAI API key not configured"))
  ELSE IF net.kind = "fetchfail" THEN Rejected(FailedToFetch)
  ELSE IF ~net.ok
    THEN Rejected(JsError(OrElse(net.errText, "OpenAI API error: " \o NumToStr(net.status))))
  ELSE StreamOpened

ApiStreamOpen(k, hasKey, net) ==
  CASE k = "grok" -> GrokStreamOpen(hasKey, net)
    [] k = "gemini" -> GeminiStreamOpen(hasKey, net)
    [] k = "claude" -> ClaudeStreamOpen(hasKey, net)
    [] k = "chatgpt" -> OpenAIStreamOpen(hasKey, net)

StreamNetResponses ==
  {FetchFail} \cup {HttpError(st, t) : st \in Statuses, t \in ErrTexts}
  \cup {HttpOk("text", UNDEFINED)}

(* reader.read() rejecting in the middle of the body *)
NetworkError == JsError("network error")

ApiStreamAbort(k) ==
  IF k = "claude" THEN Rejected(ClaudeCatch(NetworkError, ClaudeCorsStream))
  ELSE Rejected(NetworkError)

(* `return { content: fullContent, model }` *)
ApiStreamReturn(k, full) == Fulfilled(Completion(full, UNDEFINED))

(* ---------------------------- orchestrator ---------------------------- *)
(* the window globals the registry names; every adapter script is loaded   *)
LoadedApis == {models[k].api : k \in ModelKeys}

(* a ProviderResult; a field the object does not have is UNDEFINED, and a  *)
(* missing latency is NoLatency                                            *)
SuccessResult(k, content, usage, latency) ==
  [model |-> k, modelName |-> models[k].name, icon |-> models[k].icon,
   color |-> models[k].color, content |-> content, usage |-> usage,
   latency |-> latency, error |-> UNDEFINED, success |-> TRUE]

FailureResult(k, message) ==
  [model |-> k, modelName |-> models[k].name, icon |-> models[k].icon,
   color |-> models[k].color, content |-> NULL, usage |-> UNDEFINED,
   latency |-> NoLatency, error |-> message, success |-> FALSE]

(* a resolution that forgets the isConfigured() check *)
getActiveModels_noConfigCheck(selected, keys) ==
  SelectSeq(selected,
            LAMBDA model : model \in ModelKeys /\ models[model].api \in LoadedApis)

(* a resolution that walks the registry and keeps the selected keys, so    *)
(* that the result comes in the registry's order                           *)
getActiveModels_registryOrder(selected, keys) ==
  SelectSeq(<<"chatgpt", "gemini", "claude", "grok">>,
            LAMBDA model : model \in Range(selected) /\ model \in keys)

getActiveModels(selected, keys) ==
  SelectSeq(selected,
            LAMBDA model : /\ model \in ModelKeys
                           /\ models[model].api \in LoadedApis
                           /\ model \in keys)

ReadOfNullish == JsError("Cannot read properties of undefined")

(* The try/catch of queryModel and streamModel around the awaited adapter  *)
(* call: settled is the adapter promise, the result the promise of the     *)
(* async function.  Reading .content of a nullish response throws inside   *)
(* the try; reading .message of a nullish thrown value throws inside the   *)
(* catch, which rejects the async function.                                *)
TryAdapter(k, settled, usage, latency) ==
  IF settled.status = "fulfilled"
  THEN IF settled.value.type = "nullish"
       THEN Fulfilled(FailureResult(k, ReadOfNullish.message))
       ELSE Fulfilled(SuccessResult(k, settled.value.content, usage, latency))
  ELSE IF settled.reason.type = "nullish"
       THEN Rejected(ReadOfNullish)
       ELSE Fulfilled(FailureResult(k, MessageOf(settled.reason)))

queryModel(k, settled, startTime, endTime) ==
  IF k \notin ModelKeys THEN Rejected(JsError("Unknown model: " \o k))
  ELSE IF models[k].api \notin LoadedApis
    THEN Rejected(JsError("API not loaded: " \o models[k].api))
  ELSE TryAdapter(k, settled,
                  IF settled.status = "fulfilled" /\ settled.value.type # "nullish"
                  THEN settled.value.usage ELSE UNDEFINED,
                  endTime - startTime)

streamModel(k, settled, startTime, endTime) ==
  IF k \notin ModelKeys THEN Rejected(JsError("Unknown model: " \o k))
  ELSE IF models[k].api \notin LoadedApis
    THEN Rejected(JsError("API not loaded: " \o models[k].api))
  ELSE TryAdapter(k, settled, UNDEFINED, endTime - startTime)

(* result.reason?.message || 'Unknown error' *)
ReasonMessage(reason) ==
  IF reason.type # "Error" THEN "Unknown error"
  ELSE OrElse(MessageOf(reason), "Unknown error")

(* the body of results.forEach in queryAll / streamAll *)
SettledResponse(model, result) ==
  IF result.status = "fulfilled" THEN result.value
  ELSE FailureResult(model, ReasonMessage(result.reason))

(* responses[model] = v on an object held as its entries *)
ObjSet(entries, key, v) ==
  IF \E j \in 1..Len(entries) : entries[j][1] = key
  THEN [j \in 1..Len(entries) |->
          IF entries[j][1] = key THEN <<key, v>> ELSE entries[j]]
  ELSE Append(entries, <<key, v>>)

RECURSIVE CollectResponses_onlyFulfilled(_, _, _, _)
(* a collection that has no branch for a rejected promise *)
CollectResponses_onlyFulfilled(active, results, i, responses) ==
  IF i > Len(active) THEN responses
  ELSE CollectResponses_onlyFulfilled(active, results, i + 1,
         IF results[i].status = "fulfilled"
         THEN ObjSet(responses, active[i], results[i].value)
         ELSE responses)

SettledFailed(result) ==
  result.status # "fulfilled" \/ ~result.value.success

(* a collection that gives up on every provider once one of them failed *)
CollectResponses_failFast(active, results, i, responses) ==
  IF \E j \in 1..Len(results) : SettledFailed(results[j])
  THEN [j \in 1..Len(active) |-> <<active[j], FailureResult(active[j], "Round failed")>>]
  ELSE [j \in 1..Len(active) |-> <<active[j], results[j].value>>]

RECURSIVE CollectResponses(_, _, _, _)
(* results.forEach((result, index) => ...) from index i on *)
CollectResponses(active, results, i, responses) ==
  IF i > Len(active) THEN responses
  ELSE CollectResponses(active, results, i + 1,
         ObjSet(responses, active[i], SettledResponse(active[i], results[i])))

(* a race: the first settled promise ends the wait *)
AllSettled_race(promises) ==
  \E i \in 1..Len(promises) : promises[i].status # "pending"

(* a wait for the first dispatched call only *)
AllSettled_firstOnly(promises) ==
  Len(promises) > 0 => promises[1].status # "pending"

(* Promise.allSettled(promises) settles when no promise is pending ... *)
AllSettled(promises) ==
  \A i \in 1..Len(promises) : promises[i].status # "pending"

(* Promise.all: the first rejected promise rejects the wait *)
AwaitAllSettled_all(promises) ==
  IF \E i \in 1..Len(promises) : promises[i].status = "rejected"
  THEN Rejected(promises[CHOOSE i \in 1..Len(promises) :
                           promises[i].status = "rejected"].reason)
  ELSE Fulfilled(promises)

(* ... and is then fulfilled with the array of the settled promises,      *)
(* whatever their statuses: what `await Promise.allSettled(promises)`      *)
(* gives the round                                                         *)
AwaitAllSettled(promises) == Fulfilled(promises)

ObjKeys(entries) == {entries[j][1] : j \in 1..Len(entries)}

ObjGet(entries, key) ==
  entries[CHOOSE j \in 1..Len(entries) : entries[j][1] = key][2]

(* ------------------------- disagreement detector ---------------------- *)
CharAt(s, i) == SubSeq(s, i, i)

LowerLetters == "abcdefghijklmnopqrstuvwxyz"

UpperLetters == "ABCDEFGHIJKLMNOPQRSTUVWXYZ"

(* the characters of a string *)
Chars(alphabet) == {CharAt(alphabet, i) : i \in 1..Len(alphabet)}

IsIn(alphabet, c) == c \in Chars(alphabet)

PosIn(alphabet, c) == CHOOSE i \in 1..Len(alphabet) : CharAt(alphabet, i) = c

LowerSet == Chars(LowerLetters)

(* the lower-case letter of every upper-case letter *)
UpperToLower ==
  [c \in Chars(UpperLetters) |-> CharAt(LowerLetters, PosIn(UpperLetters, c))]

LowerChar(c) == IF c \in DOMAIN UpperToLower THEN UpperToLower[c] ELSE c

RECURSIVE ToLowerCase(_)
(* String.prototype.toLowerCase *)
ToLowerCase(s) ==
  IF s = "" THEN ""
  ELSE IF Len(s) = 1 THEN LowerChar(s)
  ELSE LET half == Len(s) \div 2
       IN ToLowerCase(SubSeq(s, 1, half)) \o ToLowerCase(SubSeq(s, half + 1, Len(s)))

(* \w of a regular expression *)
WordChars == LowerSet \cup Chars(UpperLetters) \cup Chars("0123456789_")

IsWordChar(c) == c \in WordChars

(* \b before position p of s (1-based; p = Len(s) + 1 is the end) *)
WordBoundary(s, p) ==
  LET before == p > 1 /\ IsWordChar(CharAt(s, p - 1))
      after == p <= Len(s) /\ IsWordChar(CharAt(s, p))
  IN before # after

RECURSIVE LetterRun(_, _)
(* the length of the longest run of [a-z] that starts at position p *)
LetterRun(s, p) ==
  IF p > Len(s) \/ CharAt(s, p) \notin LowerSet THEN 0 ELSE 1 + LetterRun(s, p + 1)

MinTopicLength == 4

RECURSIVE MatchTopicWords(_, _)
(* s.match(/\b[a-z]{4,}\b/g) || [], scanning from position p: a match is   *)
(* a run of [a-z] of length 4 or more with a word boundary on both sides   *)
MatchTopicWords(s, p) ==
  IF p > Len(s) THEN <<>>
  ELSE LET n == LetterRun(s, p)
       IN IF /\ n >= MinTopicLength
             /\ WordBoundary(s, p)
             /\ WordBoundary(s, p + n)
          THEN <<SubSeq(s, p, p + n - 1)>> \o MatchTopicWords(s, p + n)
          ELSE MatchTopicWords(s, p + 1)

RECURSIVE AddAll(_, _)
(* words.forEach(w => topics.add(w)) on a Set held in insertion order *)
AddAll(topics, words) ==
  IF words = <<>> THEN topics
  ELSE AddAll(IF Head(words) \in Range(topics) THEN topics ELSE Append(topics, Head(words)),
              Tail(words))

RECURSIVE CollectTopics(_, _)
CollectTopics(entries, topics) ==
  IF entries = <<>> THEN topics
  ELSE CollectTopics(Tail(entries),
         AddAll(topics, MatchTopicWords(ToLowerCase(Head(entries)[2].content), 1)))

stanceIndicators ==
  [positive |-> <<"better", "best", "good", "excellent", "recommend", "prefer", "advantage">>,
   negative |-> <<"worse", "worst", "bad", "avoid", "disadvantage", "problem", "issue">>]

(* String.prototype.indexOf, 0-based, -1 when absent *)
IndexOf(s, sub) ==
  LET hits == {i \in 1..(Len(s) - Len(sub) + 1) : SubSeq(s, i, i + Len(sub) - 1) = sub}
  IN IF hits = {} THEN 0 - 1
     ELSE (CHOOSE i \in hits : \A j \in hits : i <= j) - 1

Max(a, b) == IF a > b THEN a ELSE b

Min(a, b) == IF a < b THEN a ELSE b

(* String.prototype.slice for 0 <= start <= end <= length *)
Slice(s, start, end) == SubSeq(s, start + 1, end)

StanceWindow == 100

(* words.filter(w => surrounding.includes(w)).length *)
Score(words, surrounding) ==
  Cardinality({n \in 1..Len(words) : Includes(surrounding, words[n])})

(* a stance that reads the two scores the wrong way round *)
getStance_inverted(content, topic) ==
  LET context == ToLowerCase(content)
      topicIndex == IndexOf(context, topic)
      start == Max(0, topicIndex - StanceWindow)
      end == Min(Len(context), topicIndex + StanceWindow)
      surrounding == Slice(context, start, end)
      posScore == Score(stanceIndicators.positive, surrounding)
      negScore == Score(stanceIndicators.negative, surrounding)
  IN IF topicIndex = 0 - 1 THEN NULL
     ELSE IF posScore > negScore THEN "negative"
     ELSE IF negScore > posScore THEN "positive"
     ELSE "neutral"

(* a stance that reads the whole content instead of the window *)
getStance_wholeContent(content, topic) ==
  LET context == ToLowerCase(content)
      topicIndex == IndexOf(context, topic)
      posScore == Score(stanceIndicators.positive, context)
      negScore == Score(stanceIndicators.negative, context)
  IN IF topicIndex = 0 - 1 THEN NULL
     ELSE IF posScore > negScore THEN "positive"
     ELSE IF negScore > posScore THEN "negative"
     ELSE "neutral"

getStance(content, topic) ==
  LET context == ToLowerCase(content)
      topicIndex == IndexOf(context, topic)
      start == Max(0, topicIndex - StanceWindow)
      end == Min(Len(context), topicIndex + StanceWindow)
      surrounding == Slice(context, start, end)
      posScore == Score(stanceIndicators.positive, surrounding)
      negScore == Score(stanceIndicators.negative, surrounding)
  IN IF topicIndex = 0 - 1 THEN NULL
     ELSE IF posScore > negScore THEN "positive"
     ELSE IF negScore > posScore THEN "negative"
     ELSE "neutral"

RECURSIVE TopicStances_keepNeutral(_, _, _)
(* a stances object that keeps the neutral stances *)
TopicStances_keepNeutral(entries, topic, stances) ==
  IF entries = <<>> THEN stances
  ELSE LET stance == getStance(Head(entries)[2].content, topic)
       IN TopicStances_keepNeutral(Tail(entries), topic,
            IF Truthy(stance)
            THEN ObjSet(stances, Head(entries)[1], stance)
            ELSE stances)

RECURSIVE TopicStances(_, _, _)
(* the stances object of one topic, filled in the order of the responses *)
TopicStances(entries, topic, stances) ==
  IF entries = <<>> THEN stances
  ELSE LET stance == getStance(Head(entries)[2].content, topic)
       IN TopicStances(Tail(entries), topic,
            IF Truthy(stance) /\ stance # "neutral"
            THEN ObjSet(stances, Head(entries)[1], stance)
            ELSE stances)

ObjValues(entries) == {entries[j][2] : j \in 1..Len(entries)}

KeySeq(entries) == [j \in 1..Len(entries) |-> entries[j][1]]

RECURSIVE TopicDisagreements(_, _)
(* topics.forEach(topic => ...) *)
TopicDisagreements(topics, entries) ==
  IF topics = <<>> THEN <<>>
  ELSE LET stances == TopicStances(entries, Head(topics), <<>>)
       IN (IF "positive" \in ObjValues(stances) /\ "negative" \in ObjValues(stances)
           THEN <<[topic |-> Head(topics), models |-> KeySeq(stances),
                   stances |-> stances, type |-> "stance"]>>
           ELSE <<>>)
          \o TopicDisagreements(Tail(topics), entries)

MaxDisagreements == 5

(* the entries that are successful with a truthy content *)
SuccessfulResponses(responses) ==
  SelectSeq(responses, LAMBDA e : e[2].success /\ Truthy(e[2].content))

RECURSIVE TopicsWithStance(_, _)
(* the topics on which some provider takes a stance *)
TopicsWithStance(topics, entries) ==
  IF topics = <<>> THEN <<>>
  ELSE LET stances == TopicStances(entries, Head(topics), <<>>)
       IN (IF stances # <<>>
           THEN <<[topic |-> Head(topics), models |-> KeySeq(stances),
                   stances |-> stances, type |-> "stance"]>>
           ELSE <<>>)
          \o TopicsWithStance(Tail(topics), entries)

(* a detector without the early return that reports a topic as soon as one *)
(* provider takes a stance on it                                           *)
findDisagreements_anyStance(responses) ==
  LET successfulResponses == SuccessfulResponses(responses)
      all == TopicsWithStance(CollectTopics(successfulResponses, <<>>),
                              successfulResponses)
  IN SubSeq(all, 1, Min(Len(all), MaxDisagreements))

(* a detector that keeps the last five disagreements instead of the first *)
findDisagreements_lastFive(responses) ==
  LET successfulResponses == SuccessfulResponses(responses)
  IN IF Len(successfulResponses) < 2 THEN <<>>
     ELSE LET all == TopicDisagreements(CollectTopics(successfulResponses, <<>>),
                                        successfulResponses)
          IN SubSeq(all, Max(1, Len(all) - MaxDisagreements + 1), Len(all))

findDisagreements(responses) ==
  LET successfulResponses == SuccessfulResponses(responses)
  IN IF Len(successfulResponses) < 2 THEN <<>>
     ELSE LET all == TopicDisagreements(CollectTopics(successfulResponses, <<>>),
                                        successfulResponses)
          IN SubSeq(all, 1, Min(Len(all), MaxDisagreements))

(* ------------------------------ synthesizer --------------------------- *)
RECURSIVE InsertByLatency_tiesLast(_, _)
(* an insertion that puts e before the entries that are as slow as it: an  *)
(* unstable sort                                                           *)
InsertByLatency_tiesLast(sorted, e) ==
  IF sorted = <<>> THEN <<e>>
  ELSE IF Head(sorted)[2].latency - e[2].latency < 0
       THEN <<Head(sorted)>> \o InsertByLatency_tiesLast(Tail(sorted), e)
       ELSE <<e>> \o sorted

RECURSIVE InsertByLatency(_, _)
(* e put into a list sorted by latency, after the entries that are not     *)
(* slower than it: Array.prototype.sort is stable                          *)
InsertByLatency(sorted, e) ==
  IF sorted = <<>> THEN <<e>>
  ELSE IF Head(sorted)[2].latency - e[2].latency <= 0
       THEN <<Head(sorted)>> \o InsertByLatency(Tail(sorted), e)
       ELSE <<e>> \o sorted

RECURSIVE SortByLatency(_)
(* .sort((a, b) => a[1].latency - b[1].latency) *)
SortByLatency(entries) ==
  IF entries = <<>> THEN <<>>
  ELSE InsertByLatency(SortByLatency(SubSeq(entries, 1, Len(entries) - 1)),
                       entries[Len(entries)])

AllFailedMessage == "All models failed to respond. Please check your API keys and try again."

(* a synthesis that counts every successful result, an empty one included *)
synthesize_anySuccess(responses) ==
  LET successful == SortByLatency(SelectSeq(responses, LAMBDA e : e[2].success))
  IN IF Len(successful) = 0
     THEN [content |-> AllFailedMessage, primaryModel |-> NULL,
           primaryModelName |-> UNDEFINED, primaryIcon |-> UNDEFINED,
           modelCount |-> 0, disagreements |-> <<>>, allResponses |-> <<>>]
     ELSE [content |-> successful[1][2].content, primaryModel |-> successful[1][1],
           primaryModelName |-> successful[1][2].modelName,
           primaryIcon |-> successful[1][2].icon,
           modelCount |-> Len(successful),
           disagreements |-> findDisagreements(responses),
           allResponses |-> responses]

(* a synthesis that takes the first entry as primary without looking at    *)
(* its success                                                             *)
synthesize_firstEntry(responses) ==
  LET successful == SortByLatency(SuccessfulResponses(responses))
  IN IF Len(successful) = 0
     THEN [content |-> AllFailedMessage, primaryModel |-> NULL,
           primaryModelName |-> UNDEFINED, primaryIcon |-> UNDEFINED,
           modelCount |-> 0, disagreements |-> <<>>, allResponses |-> <<>>]
     ELSE [content |-> responses[1][2].content, primaryModel |-> responses[1][1],
           primaryModelName |-> responses[1][2].modelName,
           primaryIcon |-> responses[1][2].icon,
           modelCount |-> Len(successful),
           disagreements |-> findDisagreements(responses),
           allResponses |-> responses]

(* a synthesis that counts every entry of the ResultSet *)
synthesize_countsAll(responses) ==
  LET successful == SortByLatency(SuccessfulResponses(responses))
  IN IF Len(successful) = 0
     THEN [content |-> AllFailedMessage, primaryModel |-> NULL,
           primaryModelName |-> UNDEFINED, primaryIcon |-> UNDEFINED,
           modelCount |-> 0, disagreements |-> <<>>, allResponses |-> <<>>]
     ELSE [content |-> successful[1][2].content, primaryModel |-> successful[1][1],
           primaryModelName |-> successful[1][2].modelName,
           primaryIcon |-> successful[1][2].icon,
           modelCount |-> Len(responses),
           disagreements |-> findDisagreements(responses),
           allResponses |-> responses]

(* a synthesis that runs the detector on its sorted successful entries *)
synthesize_detectOnSorted(responses) ==
  LET successful == SortByLatency(SuccessfulResponses(responses))
  IN IF Len(successful) = 0
     THEN [content |-> AllFailedMessage, primaryModel |-> NULL,
           primaryModelName |-> UNDEFINED, primaryIcon |-> UNDEFINED,
           modelCount |-> 0, disagreements |-> <<>>, allResponses |-> <<>>]
     ELSE [content |-> successful[1][2].content, primaryModel |-> successful[1][1],
           primaryModelName |-> successful[1][2].modelName,
           primaryIcon |-> successful[1][2].icon,
           modelCount |-> Len(successful),
           disagreements |-> findDisagreements(successful),
           allResponses |-> responses]

(* The fallback object has no primaryModelName, primaryIcon or             *)
(* allResponses; they read as UNDEFINED, and as the empty list for         *)
(* allResponses.                                                           *)
(* a synthesis that counts the providers that answered besides the       *)
(* primary one                                                             *)
synthesize_countsOthers(responses) ==
  LET successful == SortByLatency(SuccessfulResponses(responses))
  IN IF Len(successful) = 0
     THEN [content |-> AllFailedMessage, primaryModel |-> NULL,
           primaryModelName |-> UNDEFINED, primaryIcon |-> UNDEFINED,
           modelCount |-> 0, disagreements |-> <<>>, allResponses |-> <<>>]
     ELSE [content |-> successful[1][2].content, primaryModel |-> successful[1][1],
           primaryModelName |-> successful[1][2].modelName,
           primaryIcon |-> successful[1][2].icon,
           modelCount |-> Len(successful) - 1,
           disagreements |-> findDisagreements(responses),
           allResponses |-> responses]

synthesize(responses) ==
  LET successful == SortByLatency(SuccessfulResponses(responses))
  IN IF Len(successful) = 0
     THEN [content |-> AllFailedMessage, primaryModel |-> NULL,
           primaryModelName |-> UNDEFINED, primaryIcon |-> UNDEFINED,
           modelCount |-> 0, disagreements |-> <<>>, allResponses |-> <<>>]
     ELSE [content |-> successful[1][2].content, primaryModel |-> successful[1][1],
           primaryModelName |-> successful[1][2].modelName,
           primaryIcon |-> successful[1][2].icon,
           modelCount |-> Len(successful),
           disagreements |-> findDisagreements(responses),
           allResponses |-> responses]

(* ------------------------------ the app ------------------------------- *)
(* The state object of app.js and the localStorage entries it writes, as   *)
(* one record: currentChatId, isLoading, selectedModels, chatHistory as in *)
(* `state`; chat_history and selected_models as in localStorage (Nothing   *)
(* when the key is absent, else the value JSON.parse gives of the text).   *)
(* state.messages is an array shared by reference: the array made for a    *)
(* chat id (`state.messages = []` next to `generateId()`, or the entry     *)
(* read by loadChatHistory) is the one a history entry of that id holds    *)
(* (`messages: state.messages`) and the one loadChat puts back.  arrays    *)
(* maps every chat id to its array; state.messages is                      *)
(* arrays[currentChatId], and a chatHistory entry [id, title] holds        *)
(* arrays[id].  Timestamps are left out.                                   *)
MaxChats == 3
MaxSends == 2

(* `state.chatHistory.slice(0, 50)` *)
HistoryLimit == 50

Messages(a) == a.arrays[a.currentChatId]

(* Date.now().toString(36) + Math.random()...: an id never given before;   *)
(* the ids of this session are 1, 2, ...                                   *)
generateId(a) == Cardinality(DOMAIN a.arrays \cap 1..MaxChats) + 1

getChatTitle(messages) ==
  LET users == SelectSeq(messages, LAMBDA m : m.role = "user")
  IN IF Len(users) > 0
     THEN SubSeq(users[1].content, 1, Min(50, Len(users[1].content)))
          \o (IF Len(users[1].content) > 50 THEN "..." ELSE "")
     ELSE "New Chat"

(* JSON.stringify(state.chatHistory), as JSON.parse reads it back: every   *)
(* entry with a copy of its messages                                       *)
StoredHistory(chatHistory, arrays) ==
  [i \in 1..Len(chatHistory) |->
     [id |-> chatHistory[i].id, title |-> chatHistory[i].title,
      messages |-> arrays[chatHistory[i].id]]]

(* a save that puts the current chat at the front whether or not the       *)
(* history has it                                                          *)
saveChatHistory_alwaysUnshift(a) ==
  IF Len(Messages(a)) > 0
  THEN LET chatData == [id |-> a.currentChatId, title |-> getChatTitle(Messages(a))]
           put == <<chatData>> \o a.chatHistory
           kept == SubSeq(put, 1, Min(Len(put), HistoryLimit))
       IN [a EXCEPT !.chatHistory = kept,
                    !.chat_history = [type |-> "value", value |-> StoredHistory(kept, a.arrays)]]
  ELSE a

saveChatHistory(a) ==
  IF Len(Messages(a)) > 0
  THEN LET at == {i \in 1..Len(a.chatHistory) : a.chatHistory[i].id = a.currentChatId}
           existingIndex == IF at = {} THEN 0 - 1
                            ELSE (CHOOSE i \in at : \A j \in at : i <= j) - 1
           chatData == [id |-> a.currentChatId, title |-> getChatTitle(Messages(a))]
           put == IF existingIndex > 0 - 1
                  THEN [a.chatHistory EXCEPT ![existingIndex + 1] = chatData]
                  ELSE <<chatData>> \o a.chatHistory
           kept == SubSeq(put, 1, Min(Len(put), HistoryLimit))
       IN [a EXCEPT !.chatHistory = kept,
                    !.chat_history = [type |-> "value", value |-> StoredHistory(kept, a.arrays)]]
  ELSE a

newChat(a) ==
  LET saved == saveChatHistory(a)
      id == generateId(saved)
  IN [saved EXCEPT !.currentChatId = id,
                   !.arrays = (id :> <<>>) @@ saved.arrays]

loadChat(a, chatId) ==
  IF \E i \in 1..Len(a.chatHistory) : a.chatHistory[i].id = chatId
  THEN [a EXCEPT !.currentChatId = chatId]
  ELSE a

deleteChat(a, chatId) ==
  LET kept == SelectSeq(a.chatHistory, LAMBDA c : c.id # chatId)
      deleted == [a EXCEPT !.chatHistory = kept,
                           !.chat_history = [type |-> "value", value |-> StoredHistory(kept, a.arrays)]]
  IN IF chatId = a.currentChatId THEN newChat(deleted) ELSE deleted

(* the user confirms *)
clearAllData(a) ==
  LET id == generateId(a)
  IN [a EXCEPT !.chat_history = Nothing, !.selected_models = Nothing,
               !.chatHistory = <<>>,
               !.currentChatId = id,
               !.arrays = (id :> <<>>) @@ a.arrays]

(* a toggle that removes the last selected model too *)
toggleModel_removesLast(a, model) ==
  LET selected == IF \E i \in 1..Len(a.selectedModels) : a.selectedModels[i] = model
                  THEN SelectSeq(a.selectedModels, LAMBDA m : m # model)
                  ELSE Append(a.selectedModels, model)
  IN [a EXCEPT !.selectedModels = selected,
               !.selected_models = [type |-> "value", value |-> selected]]

toggleModel(a, model) ==
  LET at == {i \in 1..Len(a.selectedModels) : a.selectedModels[i] = model}
      index == IF at = {} THEN 0 - 1
               ELSE (CHOOSE i \in at : \A j \in at : i <= j) - 1
  IN IF index > 0 - 1
     THEN IF Len(a.selectedModels) = 1 THEN a
          ELSE LET spliced == SubSeq(a.selectedModels, 1, index)
                              \o SubSeq(a.selectedModels, index + 2, Len(a.selectedModels))
               IN [a EXCEPT !.selectedModels = spliced,
                            !.selected_models = [type |-> "value", value |-> spliced]]
     ELSE [a EXCEPT !.selectedModels = Append(a.selectedModels, model),
                    !.selected_models =
                        [type |-> "value", value |-> Append(a.selectedModels, model)]]

(* init() on a localStorage whose chat_history holds stored: the defaults, *)
(* loadChatHistory, and the id of the chat on the screen                   *)
AppStart(stored) ==
  LET loaded == IF stored = Nothing THEN <<>> ELSE stored.value
      parsed == [id \in {loaded[i].id : i \in 1..Len(loaded)} |->
                   loaded[CHOOSE i \in 1..Len(loaded) : loaded[i].id = id].messages]
  IN [currentChatId |-> 1,
      isLoading |-> FALSE,
      selectedModels |-> <<"chatgpt", "gemini", "claude", "grok">>,
      chatHistory |-> [i \in 1..Len(loaded) |-> [id |-> loaded[i].id, title |-> loaded[i].title]],
      arrays |-> (1 :> <<>>) @@ parsed,
      chat_history |-> stored,
      selected_models |-> Nothing]

(* ------------------------------- state -------------------------------- *)
VARIABLES
  configured,      \* provider keys whose credential is in localStorage
  now,             \* Date.now()
  mode,            \* "none", "query" (queryAll) or "stream" (streamAll)
  selectedModels,  \* the selectedModels argument of the round
  options,         \* the options argument of the round
  onComplete,      \* the caller's onComplete: "none" (not given) or "given"
  roundState,      \* "idle", "dispatched", "returned", "threw"
  activeModels,    \* the activeModels local of the round
  calls,           \* per index of activeModels: the dispatched call
  responses,       \* the object the round returned
  roundError,      \* the error the round threw
  synthesized,     \* what synthesize made of the returned object
  found,           \* what a direct findDisagreements call returned
  frames,          \* the lines a provider under study has put on the wire
  app,             \* the state object of app.js and its localStorage entries
  rounds           \* the sendMessage calls suspended at their await

vars == <<configured, now, mode, selectedModels, options, onComplete,
          roundState, activeModels, calls, responses, roundError, synthesized, found,
          frames, app, rounds>>

(* a sequence over S without repeated elements, of length at most n *)
DistinctSeqs(S, n) ==
  UNION {{q \in [1..m -> S] : \A i, j \in 1..m : i # j => q[i] # q[j]} : m \in 0..n}

SelectedInputs == DistinctSeqs(RequestKeys, MaxSelected)

OptionInputs == [stream : BOOLEAN]

(* streamChat never reads options.stream (its request always says stream:  *)
(* true), so streaming rounds are explored with the option left unset      *)
StreamOptionInputs == {[stream |-> FALSE]}

NoModelsConfigured == JsError("No models configured. Please add API keys in Settings.")

NoError == [type |-> "none"]

(* a call right after its synchronous dispatch: the request is in flight;  *)
(* answer is what the network answered the request with, once it did       *)
(* cut holds the rest of a line whose head the last read ended with, until *)
(* the next read delivers it; thrown: an onChunk call made for this call   *)
(* has thrown                                                              *)
NewCall(model, startTime) ==
  [model |-> model, pc |-> "fetching", startTime |-> startTime,
   emitted |-> <<>>, fullContent |-> "", chunks |-> <<>>, done |-> <<>>,
   promise |-> Pending, answer |-> Nothing, cut |-> Nothing, thrown |-> FALSE]

Init ==
  /\ configured \in {S \in SUBSET ModelKeys : Cardinality(S) <= MaxConfigured}
  /\ now = 0
  /\ mode = "none"
  /\ selectedModels = <<>>
  /\ options = [stream |-> FALSE]
  /\ onComplete = "none"
  /\ roundState = "idle"
  /\ activeModels = <<>>
  /\ calls = <<>>
  /\ responses = <<>>
  /\ roundError = NoError
  /\ synthesized = Nothing
  /\ found = Nothing
  /\ frames = <<>>
  /\ app = AppStart(Nothing)
  /\ rounds = <<>>

(* a dispatch that starts the call of the first active provider only and   *)
(* leaves the others for later                                             *)
Dispatch_sequential(selected) ==
  LET active == getActiveModels(selected, configured)
  IN /\ selectedModels' = selected
     /\ activeModels' = active
     /\ IF Len(active) = 0
        THEN /\ roundState' = "threw"
             /\ roundError' = NoModelsConfigured
             /\ calls' = <<>>
        ELSE /\ roundState' = "dispatched"
             /\ roundError' = roundError
             /\ calls' = <<NewCall(active[1], now)>>
     /\ UNCHANGED <<configured, now, responses, synthesized, found, frames, app, rounds>>

(* the synchronous part of queryAll / streamAll up to the allSettled await *)
Dispatch(selected) ==
  LET active == getActiveModels(selected, configured)
  IN /\ selectedModels' = selected
     /\ activeModels' = active
     /\ IF Len(active) = 0
        THEN /\ roundState' = "threw"
             /\ roundError' = NoModelsConfigured
             /\ calls' = <<>>
        ELSE /\ roundState' = "dispatched"
             /\ roundError' = roundError
             /\ calls' = [i \in 1..Len(active) |-> NewCall(active[i], now)]
     /\ UNCHANGED <<configured, now, responses, synthesized, found, frames, app, rounds>>

queryAll(selected, opts) ==
  /\ roundState = "idle"
  /\ mode' = "query"
  /\ options' = opts
  /\ UNCHANGED onComplete
  /\ Dispatch(selected)

streamAll(selected, completeCallback, opts) ==
  /\ roundState = "idle"
  /\ mode' = "stream"
  /\ options' = opts
  /\ onComplete' = completeCallback
  /\ Dispatch(selected)

RoundUnchanged ==
  UNCHANGED <<configured, now, mode, selectedModels, options, onComplete,
              roundState, activeModels, responses, roundError, synthesized, found,
              frames, app, rounds>>

(* a round that aborts the requests still in flight once a sibling has    *)
(* failed: their calls never settle                                        *)
QuerySettle_abortedBySibling(i) ==
  /\ mode = "query"
  /\ calls[i].pc = "fetching"
  /\ \A j \in 1..Len(calls) :
       calls[j].pc = "settled" =>
         calls[j].promise.status = "fulfilled" /\ calls[j].promise.value.success
  /\ \E net \in NetResponses :
       LET k == calls[i].model
           settled == ApiChat(k, k \in configured, options, net)
       IN calls' = [calls EXCEPT ![i].pc = "settled",
                      ![i].answer = net,
                      ![i].promise = queryModel(k, settled, calls[i].startTime, now)]
  /\ RoundUnchanged

(* api.chat of call i settles and queryModel builds its result *)
QuerySettle(i) ==
  /\ mode = "query"
  /\ calls[i].pc = "fetching"
  /\ \E net \in NetResponses :
       LET k == calls[i].model
           settled == ApiChat(k, k \in configured, options, net)
       IN calls' = [calls EXCEPT ![i].pc = "settled",
                      ![i].answer = net,
                      ![i].promise = queryModel(k, settled, calls[i].startTime, now)]
  /\ RoundUnchanged

CallbackError == JsError("callback failed")

(* a completion that reports only the providers that succeeded *)
StreamCompleted_onlyOnSuccess(call, inner, threw) ==
  IF inner.status = "rejected" \/ onComplete = "none" \/ ~inner.value.success
  THEN [call EXCEPT !.pc = "settled", !.promise = inner]
  ELSE [call EXCEPT !.pc = "settled",
                    !.done = Append(@, inner.value),
                    !.promise = IF threw THEN Rejected(CallbackError) ELSE inner]

(* The async callback of activeModels.map in streamAll once streamModel    *)
(* has settled with inner: `if (onComplete) onComplete(model, result);     *)
(* return result;`.  threw: this invocation of onComplete throws.          *)
StreamCompleted(call, inner, threw) ==
  IF inner.status = "rejected" \/ onComplete = "none"
  THEN [call EXCEPT !.pc = "settled", !.promise = inner]
  ELSE [call EXCEPT !.pc = "settled",
                    !.done = Append(@, inner.value),
                    !.promise = IF threw THEN Rejected(CallbackError) ELSE inner]

(* the request of streamChat of call i is answered: the body is opened, or *)
(* streamChat rejects, streamModel builds the result and the callback of   *)
(* streamAll completes                                                     *)
StreamOpen(i) ==
  /\ mode = "stream"
  /\ calls[i].pc = "fetching"
  /\ \E net \in StreamNetResponses, threw \in BOOLEAN :
       LET k == calls[i].model
           opened == ApiStreamOpen(k, k \in configured, net)
       IN IF opened = StreamOpened
          THEN calls' = [calls EXCEPT ![i].pc = "streaming", ![i].answer = net]
          ELSE calls' = [calls EXCEPT ![i] =
                 StreamCompleted([@ EXCEPT !.answer = net],
                                 streamModel(k, opened, calls[i].startTime, now), threw)]
  /\ RoundUnchanged

(* one reader.read() of call i returns a chunk of lines of the given       *)
(* shape; the caller's onChunk returns or throws, as it likes              *)
ReadInto(i, shape, throws) ==
  LET k == calls[i].model
      lines == ReadLines(shape, Len(calls[i].emitted))
      made == ChunkCalls(k, lines, calls[i].fullContent, throws)
  IN /\ Len(calls[i].chunks) + Len(made) <= MaxChunks
     /\ calls' = [calls EXCEPT ![i].emitted = @ \o EmittedTexts(lines),
                    ![i].fullContent = FullAfter(@, made),
                    ![i].chunks = @ \o made,
                    ![i].thrown = @ \/ (throws /\ made # <<>>)]

StreamRead(i) ==
  /\ mode = "stream"
  /\ calls[i].pc = "streaming"
  /\ \E shape \in ReadShapes, throws \in BOOLEAN : ReadInto(i, shape, throws)
  /\ RoundUnchanged

(* a streamChat that resolves with the fragment it read last where the    *)
(* accumulated text goes                                                   *)
StreamDone_lastFragment(i) ==
  /\ mode = "stream"
  /\ calls[i].pc = "streaming"
  /\ \E threw \in BOOLEAN :
       LET k == calls[i].model
           last == IF calls[i].chunks = <<>> THEN ""
                   ELSE calls[i].chunks[Len(calls[i].chunks)].chunk
           inner == streamModel(k, ApiStreamReturn(k, last), calls[i].startTime, now)
       IN calls' = [calls EXCEPT ![i] = StreamCompleted(@, inner, threw)]
  /\ RoundUnchanged

(* reader.read() of call i reports done: streamChat returns, streamModel   *)
(* builds the result and the callback of streamAll completes               *)
StreamDone(i) ==
  /\ mode = "stream"
  /\ calls[i].pc = "streaming"
  /\ \E threw \in BOOLEAN :
       LET k == calls[i].model
           inner == streamModel(k, ApiStreamReturn(k, calls[i].fullContent),
                                calls[i].startTime, now)
       IN calls' = [calls EXCEPT ![i] = StreamCompleted(@, inner, threw)]
  /\ RoundUnchanged

(* reader.read() of call i rejects: streamChat rejects *)
StreamAbort(i) ==
  /\ mode = "stream"
  /\ calls[i].pc = "streaming"
  /\ \E threw \in BOOLEAN :
       LET k == calls[i].model
           inner == streamModel(k, ApiStreamAbort(k), calls[i].startTime, now)
       IN calls' = [calls EXCEPT ![i] = StreamCompleted(@, inner, threw)]
  /\ RoundUnchanged

Promises == [i \in 1..Len(calls) |-> calls[i].promise]

(* the continuation of queryAll / streamAll after the allSettled await *)
Return ==
  /\ roundState = "dispatched"
  /\ AllSettled(Promises)
  /\ LET results == AwaitAllSettled(Promises)
     IN IF results.status = "rejected"
        THEN /\ roundState' = "threw"
             /\ roundError' = results.reason
             /\ responses' = responses
        ELSE /\ roundState' = "returned"
             /\ roundError' = roundError
             /\ responses' = CollectResponses(activeModels, results.value, 1, <<>>)
  /\ UNCHANGED <<configured, now, mode, selectedModels, options, onComplete,
                 activeModels, calls, synthesized, found, frames, app, rounds>>

(* sendMessage hands the returned object to synthesize *)
(* a synthesis that keeps its sorted array of successful entries as the    *)
(* ResultSet                                                               *)
Synthesize_keepsSorted ==
  /\ roundState = "returned"
  /\ roundState' = "synthesized"
  /\ synthesized' = synthesize(responses)
  /\ responses' = SortByLatency(SuccessfulResponses(responses))
  /\ UNCHANGED <<configured, now, mode, selectedModels, options, onComplete,
                 activeModels, calls, roundError, found, frames, app, rounds>>

Synthesize ==
  /\ roundState = "returned"
  /\ roundState' = "synthesized"
  /\ synthesized' = synthesize(responses)
  /\ UNCHANGED <<configured, now, mode, selectedModels, options, onComplete,
                 activeModels, calls, responses, roundError, found, frames, app, rounds>>

(* the clock advances while a round is in flight *)
Tick ==
  /\ roundState = "dispatched"
  /\ ~AllSettled(Promises)
  /\ now < MaxTime
  /\ now' = now + 1
  /\ UNCHANGED <<configured, mode, selectedModels, options, onComplete,
                 roundState, activeModels, calls, responses, roundError, synthesized,
                 found, frames, app, rounds>>

Next ==
  \/ \E sel \in SelectedInputs, opts \in OptionInputs : queryAll(sel, opts)
  \/ \E sel \in SelectedInputs, d \in {"none", "given"}, opts \in StreamOptionInputs :
        streamAll(sel, d, opts)
  \/ \E i \in 1..Len(calls) : QuerySettle(i)
  \/ \E i \in 1..Len(calls) : StreamOpen(i)
  \/ \E i \in 1..Len(calls) : StreamRead(i)
  \/ \E i \in 1..Len(calls) : StreamDone(i)
  \/ \E i \in 1..Len(calls) : StreamAbort(i)
  \/ Return
  \/ Synthesize
  \/ Tick

Spec == Init /\ [][Next]_vars

(* ------------------------- rounds that progress ---------------------- *)
(* The next step of the adapter call i towards its settlement: the answer *)
(* to its request, or the end of its stream.                               *)
SettleStep(i) ==
  /\ i \in 1..Len(calls)
  /\ \/ QuerySettle(i)
     \/ StreamOpen(i)
     \/ StreamDone(i)
     \/ StreamAbort(i)

(* Every dispatched adapter call eventually settles (the network answers  *)
(* each request and ends each stream), and the event loop runs the         *)
(* continuation of `await Promise.allSettled(promises)` once it resolved.  *)
SpecLive ==
  /\ Init /\ [][Next]_vars
  /\ \A i \in 1..MaxSelected : WF_vars(SettleStep(i))
  /\ WF_vars(Return)

(* ------------- adapters outside the capability contract --------------- *)
(* What an adapter call can do beyond what the adapters above do: resolve  *)
(* with null/undefined or with an object without content, reject with a    *)
(* thrown primitive or with null/undefined.                                *)
AnyOutcomes ==
  {Fulfilled([type |-> "nullish"]), Fulfilled(ResponseBody),
   Rejected([type |-> "string"]), Rejected([type |-> "nullish"])}

QuerySettleAny(i) ==
  /\ mode = "query"
  /\ calls[i].pc = "fetching"
  /\ \E settled \in AnyOutcomes :
       calls' = [calls EXCEPT ![i].pc = "settled",
                   ![i].promise = queryModel(calls[i].model, settled,
                                             calls[i].startTime, now)]
  /\ RoundUnchanged

StreamSettleAny(i) ==
  /\ mode = "stream"
  /\ calls[i].pc = "fetching"
  /\ \E settled \in AnyOutcomes, threw \in BOOLEAN :
       LET inner == streamModel(calls[i].model, settled, calls[i].startTime, now)
       IN calls' = [calls EXCEPT ![i] = StreamCompleted(@, inner, threw)]
  /\ RoundUnchanged

NextAny ==
  \/ Next
  \/ \E i \in 1..Len(calls) : QuerySettleAny(i)
  \/ \E i \in 1..Len(calls) : StreamSettleAny(i)

SpecAny == Init /\ [][NextAny]_vars

(* ---------- synthesize and findDisagreements on a ResultSet ----------- *)
(* Synthesizer.synthesize and Synthesizer.findDisagreements take any       *)
(* ResultSet.  The ResultSets explored are of the shapes queryModel and    *)
(* streamModel build: a success carries a content and a latency, a failure *)
(* a null content and an error.                                            *)
MaxResults == 3

(* latencies in ms *)
LatencyInputs == {100, 200, 300}

ExampleA == "X is better than Y for this problem"

ExampleB == "X is worse and has many issues"

SharedWordA == "Xylo is better than Y for this task"

SharedWordB == "Xylo is worse and has many issues"

SixTopicsGood == "good aaaa bbbb cccc dddd eeee ffff"

SixTopicsBad == "bad ffff eeee dddd cccc bbbb aaaa"

(* a text that is neutral on its topic words: one positive word, one       *)
(* negative word                                                           *)
SharedWordC == "Xylo is good but has one problem"

(* the families of texts the detector is tried on *)
TextPairs ==
  {{ExampleA, ExampleB}, {SharedWordA, SharedWordB, SharedWordC},
   {SixTopicsGood, SixTopicsBad}}

(* what a provider's entry can be: a failure, or a success with a content  *)
(* and a latency                                                           *)
OutcomeInputs(contents, latencies) ==
  {[success |-> FALSE, content |-> NULL, latency |-> NoLatency]}
  \cup {[success |-> TRUE, content |-> c, latency |-> l] : c \in contents, l \in latencies}

EntryOf(k, o) ==
  <<k, IF o.success THEN SuccessResult(k, o.content, UNDEFINED, o.latency)
       ELSE FailureResult(k, "Failed to fetch")>>

(* the ResultSet with the keys in the order keys and the outcomes outs *)
ResultSetOf(keys, outs) == [i \in 1..Len(keys) |-> EntryOf(keys[i], outs[i])]

(* every key order, short contents, every latency: what ranking depends on *)
RankedResultSet(rs) ==
  \E keys \in DistinctSeqs(ModelKeys, MaxResults) :
    \E outs \in [1..Len(keys) -> OutcomeInputs({"", "hi"}, LatencyInputs)] :
      rs = ResultSetOf(keys, outs)

TextKeyOrder == <<"claude", "grok", "gemini", "chatgpt">>

(* every arrangement of a pair of texts, the empty text and failures over *)
(* a fixed key order, with one latency: what the detector depends on       *)
TextResultSet(rs) ==
  \E n \in 0..MaxResults, pair \in TextPairs :
    \E outs \in [1..n -> OutcomeInputs(pair \cup {""}, {100})] :
      rs = ResultSetOf(SubSeq(TextKeyOrder, 1, n), outs)

(* two or more entries, each a failure or a text that takes a stance on a  *)
(* shared word, with every latency order: what separates the ResultSet     *)
(* from its sorted entries                                                 *)
TimedTextResultSet(rs) ==
  \E n \in 2..MaxResults :
    \E outs \in [1..n -> OutcomeInputs({SharedWordA, SharedWordB}, {100, 200})] :
      rs = ResultSetOf(SubSeq(TextKeyOrder, 1, n), outs)

SynthInit ==
  /\ configured = ModelKeys
  /\ now = 0
  /\ mode = "none"
  /\ selectedModels = <<>>
  /\ options = [stream |-> FALSE]
  /\ onComplete = "none"
  /\ roundState = "returned"
  /\ activeModels = <<>>
  /\ calls = <<>>
  /\ \/ RankedResultSet(responses)
     \/ TextResultSet(responses)
     \/ TimedTextResultSet(responses)
  /\ roundError = NoError
  /\ synthesized = Nothing
  /\ found = Nothing
  /\ frames = <<>>
  /\ app = AppStart(Nothing)
  /\ rounds = <<>>

(* what a call returned *)
ReturnValue(v) == [type |-> "value", value |-> v]

(* a direct call of Synthesizer.findDisagreements(responses) *)
FindDisagreements ==
  /\ roundState \in {"returned", "synthesized"}
  /\ found = Nothing
  /\ found' = ReturnValue(findDisagreements(responses))
  /\ UNCHANGED <<configured, now, mode, selectedModels, options, onComplete,
                 roundState, activeModels, calls, responses, roundError, synthesized,
                 frames, app, rounds>>

(* a second call of synthesize on the ResultSet the first call was given *)
SynthesizeAgain ==
  /\ roundState = "synthesized"
  /\ roundState' = "resynthesized"
  /\ synthesized' = synthesize(responses)
  /\ UNCHANGED <<configured, now, mode, selectedModels, options, onComplete,
                 activeModels, calls, responses, roundError, found, frames, app, rounds>>

SynthNext ==
  \/ Synthesize
  \/ SynthesizeAgain
  \/ FindDisagreements

SpecSynth == SynthInit /\ [][SynthNext]_vars

(* ------------------ rounds on selections that repeat a key ------------- *)
(* the selections of up to MaxSelected keys in which some key occurs twice *)
RepeatedInputs ==
  {s \in UNION {[1..n -> ModelKeys] : n \in 2..MaxSelected} :
     \E i, j \in 1..Len(s) : i < j /\ s[i] = s[j]}

RepeatNext ==
  \/ \E sel \in RepeatedInputs, opts \in OptionInputs : queryAll(sel, opts)
  \/ \E sel \in RepeatedInputs, d \in {"none", "given"}, opts \in StreamOptionInputs :
        streamAll(sel, d, opts)
  \/ \E i \in 1..Len(calls) : QuerySettle(i)
  \/ \E i \in 1..Len(calls) : StreamOpen(i)
  \/ \E i \in 1..Len(calls) : StreamRead(i)
  \/ \E i \in 1..Len(calls) : StreamDone(i)
  \/ \E i \in 1..Len(calls) : StreamAbort(i)
  \/ Return
  \/ Synthesize
  \/ Tick

SpecRepeat == Init /\ [][RepeatNext]_vars

(* ------------------- getStance on a content and a topic --------------- *)
(* getStance is local to findDisagreements; it is applied here to the      *)
(* content of a one-entry ResultSet and a topic word.                      *)
MaxWords == 3

RECURSIVE JoinWords(_)
JoinWords(words) ==
  IF words = <<>> THEN ""
  ELSE IF Len(words) = 1 THEN words[1]
  ELSE words[1] \o " " \o JoinWords(Tail(words))

RECURSIVE Pad(_)
Pad(n) == IF n = 0 THEN "" ELSE "." \o Pad(n - 1)

(* The contents getStance is applied to: the texts of up to MaxWords words *)
(* of a small vocabulary; a text in capitals; and "good", filler, "xylo",  *)
(* filler, "bad", where with 96 characters of filler before and 93 after   *)
(* "good" and "bad" are the first and the last word inside the window of   *)
(* "xylo", and with one character more they are cut.                       *)
StanceTexts ==
  LET vocabulary == {"xylo", "good", "best", "bad"}
      wordTexts == {JoinWords(ws) : ws \in UNION {[1..n -> vocabulary] : n \in 1..MaxWords}}
      windowTexts == {"good" \o Pad(a) \o "xylo" \o Pad(b) \o "bad" :
                        a \in {StanceWindow - 4, StanceWindow - 3},
                        b \in {StanceWindow - 7, StanceWindow - 6}}
  IN wordTexts \cup windowTexts \cup {"Xylo is GOOD"}

StanceInit ==
  /\ configured = ModelKeys
  /\ now = 0
  /\ mode = "none"
  /\ selectedModels = <<>>
  /\ options = [stream |-> FALSE]
  /\ onComplete = "none"
  /\ roundState = "returned"
  /\ activeModels = <<>>
  /\ calls = <<>>
  /\ \E c \in StanceTexts :
       responses = <<EntryOf("claude", [success |-> TRUE, content |-> c, latency |-> 100])>>
  /\ roundError = NoError
  /\ synthesized = Nothing
  /\ found = Nothing
  /\ frames = <<>>
  /\ app = AppStart(Nothing)
  /\ rounds = <<>>

(* getStance(response.content, topic) *)
GetStance(topic) ==
  /\ found = Nothing
  /\ found' = [type |-> "stance", topic |-> topic,
               value |-> getStance(responses[1][2].content, topic)]
  /\ UNCHANGED <<configured, now, mode, selectedModels, options, onComplete,
                 roundState, activeModels, calls, responses, roundError, synthesized,
                 frames, app, rounds>>

StanceNext == \E topic \in {"xylo", "good", "zzzz"} : GetStance(topic)

SpecStance == StanceInit /\ [][StanceNext]_vars

(* -------------- one provider's stream, line by line -------------------- *)
(* A streaming round of one provider in which the lines the provider sends *)
(* are kept in frames, up to MaxFrames of them.                            *)
MaxFrames == 3

FrameRead ==
  /\ mode = "stream"
  /\ calls[1].pc = "streaming"
  /\ \E shape \in ReadShapes, throws \in BOOLEAN :
       /\ Len(frames) + Len(shape) <= MaxFrames
       /\ ReadInto(1, shape, throws)
       /\ frames' = frames \o ReadLines(shape, Len(calls[1].emitted))
  /\ UNCHANGED <<configured, now, mode, selectedModels, options, onComplete,
                 roundState, activeModels, responses, roundError, synthesized, found, app, rounds>>

FramesNext ==
  \/ \E k \in ModelKeys, d \in {"none", "given"}, opts \in StreamOptionInputs :
        streamAll(<<k>>, d, opts)
  \/ \E i \in 1..Len(calls) : StreamOpen(i)
  \/ Len(calls) = 1 /\ FrameRead
  \/ \E i \in 1..Len(calls) : StreamDone(i)
  \/ \E i \in 1..Len(calls) : StreamAbort(i)
  \/ Return

SpecFrames == Init /\ [][FramesNext]_vars

(* ------------- one provider's stream, divided into reads -------------- *)
(* The body arrives in reads that end where the network cut it, not at the *)
(* ends of lines.  Each read is decoded and split on its own               *)
(* (`chunk.split('\n').filter(line => line.trim() !== '')`), so a line cut *)
(* by the end of a read is seen as two pieces: the head in this read, the  *)
(* tail in the next.  where: the cut falls before the line's newline       *)
(* ("newline": the head is the whole line, the tail is empty and filtered  *)
(* out), inside the JSON after `data: ` ("payload": the head starts with   *)
(* `data: ` and fails JSON.parse, the tail does not start with `data: `),  *)
(* or inside `data: ` ("prefix": neither piece starts with `data: `).      *)
SplitLine(line, where) ==
  CASE where = "newline" -> [head |-> <<line>>, tail |-> <<>>]
    [] where = "payload" -> [head |-> <<LineOf("invalid", UNDEFINED)>>,
                             tail |-> <<LineOf("comment", UNDEFINED)>>]
    [] where = "prefix" -> [head |-> <<LineOf("comment", UNDEFINED)>>,
                            tail |-> <<LineOf("comment", UNDEFINED)>>]

(* a reader.read() that ends inside the line of the provider's next        *)
(* fragment *)
CutRead ==
  /\ mode = "stream"
  /\ calls[1].pc = "streaming"
  /\ calls[1].cut = Nothing
  /\ Len(frames) < MaxFrames
  /\ \E where \in {"newline", "payload", "prefix"}, throws \in BOOLEAN :
       LET k == calls[1].model
           line == LineOf("text", FragmentAt(Len(calls[1].emitted) + 1))
           pieces == SplitLine(line, where)
           made == ChunkCalls(k, pieces.head, calls[1].fullContent, throws)
       IN /\ Len(calls[1].chunks) + Len(made) <= MaxChunks
          /\ calls' = [calls EXCEPT ![1].emitted = @ \o EmittedTexts(<<line>>),
                         ![1].fullContent = FullAfter(@, made),
                         ![1].chunks = @ \o made,
                         ![1].thrown = @ \/ (throws /\ made # <<>>),
                         ![1].cut = ReturnValue(pieces.tail)]
          /\ frames' = frames \o <<line>>
  /\ UNCHANGED <<configured, now, mode, selectedModels, options, onComplete,
                 roundState, activeModels, responses, roundError, synthesized, found, app, rounds>>

(* the next reader.read(): it begins with the rest of the line *)
RestRead ==
  /\ mode = "stream"
  /\ calls[1].pc = "streaming"
  /\ calls[1].cut # Nothing
  /\ \E throws \in BOOLEAN :
       LET made == ChunkCalls(calls[1].model, calls[1].cut.value,
                              calls[1].fullContent, throws)
       IN /\ Len(calls[1].chunks) + Len(made) <= MaxChunks
          /\ calls' = [calls EXCEPT ![1].fullContent = FullAfter(@, made),
                         ![1].chunks = @ \o made,
                         ![1].thrown = @ \/ (throws /\ made # <<>>),
                         ![1].cut = Nothing]
  /\ UNCHANGED <<configured, now, mode, selectedModels, options, onComplete,
                 roundState, activeModels, responses, roundError, synthesized, found,
                 frames, app, rounds>>

(* the stream ends or breaks only between lines *)
SplitNext ==
  \/ \E k \in ModelKeys, d \in {"none", "given"}, opts \in StreamOptionInputs :
        streamAll(<<k>>, d, opts)
  \/ \E i \in 1..Len(calls) : StreamOpen(i)
  \/ Len(calls) = 1 /\ calls[1].cut = Nothing /\ FrameRead
  \/ Len(calls) = 1 /\ CutRead
  \/ Len(calls) = 1 /\ RestRead
  \/ \E i \in 1..Len(calls) : calls[i].cut = Nothing /\ StreamDone(i)
  \/ \E i \in 1..Len(calls) : calls[i].cut = Nothing /\ StreamAbort(i)
  \/ Return

SpecSplit == Init /\ [][SplitNext]_vars

(* ------------------------- the app's handlers ------------------------- *)
(* a handler of app.js that runs to its end in one go *)
AppStep(a) ==
  /\ app' = a
  /\ UNCHANGED <<configured, now, mode, selectedModels, options, onComplete,
                 roundState, activeModels, calls, responses, roundError, synthesized,
                 found, frames, rounds>>

(* a sendMessage that does not look at isLoading *)
sendMessage_noLoadingCheck(content) ==
  LET active == getActiveModels(app.selectedModels, configured)
  IN IF content = "" \/ Len(active) = 0
     THEN UNCHANGED vars
     ELSE /\ app' = [app EXCEPT
                      !.arrays[app.currentChatId] =
                          Append(@, [role |-> "user", content |-> content]),
                      !.isLoading = TRUE]
          /\ rounds' = Append(rounds, [chatId |-> app.currentChatId,
                                       selected |-> app.selectedModels,
                                       active |-> active])
          /\ UNCHANGED <<configured, now, mode, selectedModels, options, onComplete,
                         roundState, activeModels, calls, responses, roundError,
                         synthesized, found, frames>>

(* sendMessage up to its await: the round is started with the selection    *)
(* and the messages of this moment.  chatId notes the chat on the screen   *)
(* when the user message was added.                                        *)
sendMessage(content) ==
  LET active == getActiveModels(app.selectedModels, configured)
  IN IF content = "" \/ app.isLoading \/ Len(active) = 0
     THEN UNCHANGED vars
     ELSE /\ app' = [app EXCEPT
                      !.arrays[app.currentChatId] =
                          Append(@, [role |-> "user", content |-> content]),
                      !.isLoading = TRUE]
          /\ rounds' = Append(rounds, [chatId |-> app.currentChatId,
                                       selected |-> app.selectedModels,
                                       active |-> active])
          /\ UNCHANGED <<configured, now, mode, selectedModels, options, onComplete,
                         roundState, activeModels, calls, responses, roundError,
                         synthesized, found, frames>>

(* the rest of sendMessage once the awaited round has settled: every       *)
(* active provider answered, the assistant message is added to             *)
(* state.messages and the history saved; or (threw) the try block raised   *)
(* and the catch reports it; the finally block runs in both cases          *)
SendComplete ==
  /\ rounds # <<>>
  /\ \E threw \in BOOLEAN :
       LET round == Head(rounds)
           rs == [i \in 1..Len(round.active) |->
                    <<round.active[i],
                      SuccessResult(round.active[i], "a", UNDEFINED, 1)>>]
           pushed == [app EXCEPT
                        !.arrays[app.currentChatId] =
                            Append(@, [role |-> "assistant",
                                       content |-> synthesize(rs).content])]
       IN app' = [(IF threw THEN app ELSE saveChatHistory(pushed))
                    EXCEPT !.isLoading = FALSE]
  /\ rounds' = Tail(rounds)
  /\ UNCHANGED <<configured, now, mode, selectedModels, options, onComplete,
                 roundState, activeModels, calls, responses, roundError, synthesized,
                 found, frames>>

(* the app after init(): on an empty localStorage, or on one that holds   *)
(* the history of earlier sessions, HistoryLimit chats, the newest first   *)
AppInit ==
  /\ configured = {"gemini", "grok"}
  /\ now = 0
  /\ mode = "none"
  /\ selectedModels = <<>>
  /\ options = [stream |-> FALSE]
  /\ onComplete = "none"
  /\ roundState = "idle"
  /\ activeModels = <<>>
  /\ calls = <<>>
  /\ responses = <<>>
  /\ roundError = NoError
  /\ synthesized = Nothing
  /\ found = Nothing
  /\ frames = <<>>
  /\ LET stored == [i \in 1..HistoryLimit |->
                      [id |-> 100 + i, title |-> "hi",
                       messages |-> <<[role |-> "user", content |-> "hi"],
                                      [role |-> "assistant", content |-> "a"]>>]]
     IN app \in {AppStart(Nothing), AppStart([type |-> "value", value |-> stored])}
  /\ rounds = <<>>

(* the chats the history list shows that the user picks among (those of   *)
(* this session and one stored chat), and the number of user messages sent *)
(* so far in them                                                          *)
ShownChats == {app.chatHistory[i].id : i \in 1..Len(app.chatHistory)} \cap (1..MaxChats \cup {102})

Sends ==
  LET ids == DOMAIN app.arrays \cap (1..MaxChats \cup {102})
      sent(id) == Len(SelectSeq(app.arrays[id], LAMBDA m : m.role = "user"))
                  - (IF id = 102 THEN 1 ELSE 0)
      RECURSIVE sum(_)
      sum(S) == IF S = {} THEN 0
                ELSE LET id == CHOOSE x \in S : TRUE IN sent(id) + sum(S \ {id})
  IN sum(ids)

AppNext ==
  \/ \E content \in {"", "hi"} : Sends < MaxSends /\ sendMessage(content)
  \/ SendComplete
  \/ generateId(app) <= MaxChats /\ AppStep(newChat(app))
  \/ \E chatId \in ShownChats : AppStep(loadChat(app, chatId))
  \/ \E chatId \in ShownChats :
        (chatId # app.currentChatId \/ generateId(app) <= MaxChats)
        /\ AppStep(deleteChat(app, chatId))
  \/ generateId(app) <= MaxChats /\ AppStep(clearAllData(app))

SpecApp == AppInit /\ [][AppNext]_vars

(* the model pills: toggles between and during rounds *)
ToggleNext ==
  \/ \E model \in ModelKeys : AppStep(toggleModel(app, model))
  \/ Sends < MaxSends /\ sendMessage("hi")
  \/ SendComplete

SpecToggle == AppInit /\ [][ToggleNext]_vars

(* ------------------ getActiveModels on any selection ------------------ *)
MaxRequested == 3

(* the selectedModels a caller may pass: any keys, repeated or not *)
RequestedInputs == UNION {[1..n -> RequestKeys] : n \in 0..MaxRequested}

(* Synthesizer.getActiveModels(selectedModels), as sendMessage calls it    *)
(* before a round                                                          *)
Resolve(selected) ==
  /\ roundState = "idle"
  /\ roundState' = "resolved"
  /\ selectedModels' = selected
  /\ activeModels' = getActiveModels(selected, configured)
  /\ UNCHANGED <<configured, now, mode, options, onComplete, calls, responses,
                 roundError, synthesized, found, frames, app, rounds>>

ResolveNext == \E selected \in RequestedInputs : Resolve(selected)

SpecResolve == Init /\ [][ResolveNext]_vars

(* ============================== properties ============================ *)
(* the keys of the request that are registered and have a credential *)
ResolvedKeys == {k \in Range(selectedModels) : k \in ModelKeys /\ k \in configured}

Returned == roundState \in {"returned", "synthesized"}

CallIndices == 1..Len(calls)

ResponseOf(i) == ObjGet(responses, calls[i].model)

(* C1: the ResultSet a round returns (queryAll or streamAll) has exactly   *)
(* the resolved active keys as its keys, one entry per key, whatever the   *)
(* providers' successes and failures were.                                 *)
C1_ResultKeysAreActiveKeys ==
  Returned =>
    /\ ObjKeys(responses) = ResolvedKeys
    /\ Len(responses) = Cardinality(ResolvedKeys)

C1_Witness ==
  /\ Returned /\ mode = "stream"
  /\ Len(responses) = 2
  /\ \E i, j \in CallIndices :
       /\ calls[i].promise.status = "rejected"
       /\ calls[j].promise.status = "fulfilled" /\ calls[j].promise.value.success

C2_OwnResult ==
  Returned =>
    \A i \in CallIndices :
      /\ ResponseOf(i).model = calls[i].model
      /\ calls[i].promise.status = "fulfilled" => ResponseOf(i) = calls[i].promise.value
      /\ calls[i].promise.status = "rejected" =>
           ~ResponseOf(i).success /\ ResponseOf(i).content = NULL

C2_StepTouchesOneCall ==
  Len(calls') = Len(calls) =>
    \A i, j \in CallIndices : (i # j /\ calls'[i] # calls[i]) => calls'[j] = calls[j]

(* C2: fault isolation.  The entry of every provider in the returned       *)
(* ResultSet is the result of that provider's own call (a failed result    *)
(* under its own key when the call failed), whatever its siblings did, and *)
(* a step of one call leaves every other call as it was.                   *)
C2_FaultIsolation == [](C2_OwnResult) /\ [][C2_StepTouchesOneCall]_vars

C2_Witness ==
  /\ Returned /\ mode = "query"
  /\ \E i, j \in CallIndices :
       /\ ~ResponseOf(i).success /\ ResponseOf(i).error = "Failed to fetch"
       /\ ResponseOf(j).success /\ ResponseOf(j).content = "hi"
       /\ ResponseOf(j).latency = 1

(* C3: barrier.  queryAll has returned only if every dispatched call has   *)
(* settled: no first success and no first failure ends the round early.    *)
C3_QueryBarrier ==
  (mode = "query" /\ roundState \in {"returned", "threw"}) =>
    \A i \in CallIndices : calls[i].promise.status # "pending"

C3_Witness ==
  /\ Returned /\ mode = "query" /\ Len(calls) = 2
  /\ calls[1].promise.value.success
  /\ ~calls[2].promise.value.success

(* C4: with at least one active provider a round never throws, whatever    *)
(* the adapter calls and the caller's callbacks do: a rejected call shows  *)
(* as a failed result in the returned ResultSet.                           *)
C4_RoundNeverThrows ==
  /\ ResolvedKeys # {} => roundState # "threw"
  /\ Returned =>
       \A i \in CallIndices :
         calls[i].promise.status = "rejected" =>
           /\ ~ResponseOf(i).success
           /\ ResponseOf(i).error \notin {NULL, UNDEFINED, ""}

C4_Witness ==
  /\ Returned /\ mode = "stream"
  /\ \E i, j \in CallIndices :
       /\ calls[i].promise = Rejected(ReadOfNullish)
       /\ calls[j].promise = Rejected(CallbackError)
       /\ Len(calls[j].chunks) > 0

(* C5: a round without any active key fails with the NoProvidersConfigured *)
(* error before any dispatch: no adapter call is made, hence no callback   *)
(* fires.                                                                  *)
C5_NoProvidersConfigured ==
  (mode # "none" /\ ResolvedKeys = {}) =>
    /\ roundState = "threw"
    /\ roundError = NoModelsConfigured
    /\ calls = <<>>
    /\ responses = <<>>

C5_Witness ==
  /\ roundState = "threw" /\ mode = "stream"
  /\ Len(selectedModels) = 2
  /\ \E a, b \in Range(selectedModels) : a \notin ModelKeys /\ b \in ModelKeys
  /\ configured # {}

(* C6: in streamAll onProviderDone has fired exactly once for a provider   *)
(* whose stream has terminated (with success or with failure), with that   *)
(* provider's own result, and not at all for one whose stream has not;     *)
(* this does not depend on what the other providers have done.             *)
C6_DoneOncePerProvider ==
  (mode = "stream" /\ onComplete = "given") =>
    \A i \in CallIndices :
      /\ Len(calls[i].done) = IF calls[i].pc = "settled" THEN 1 ELSE 0
      /\ calls[i].pc = "settled" => calls[i].done[1].model = calls[i].model

C6_Witness ==
  /\ mode = "stream" /\ onComplete = "given" /\ roundState = "dispatched"
  /\ \E i, j \in CallIndices :
       /\ Len(calls[i].done) = 1 /\ ~calls[i].done[1].success
       /\ calls[j].pc = "streaming" /\ calls[j].done = <<>>

RECURSIVE Concat(_)
Concat(texts) == IF texts = <<>> THEN "" ELSE Head(texts) \o Concat(Tail(texts))

(* C7: for every provider the onChunk calls carry the fragments in the     *)
(* order the provider sent them, and the cumulative text of each call is   *)
(* the concatenation of the fragments delivered so far, under every        *)
(* interleaving of the providers.                                          *)
C7_ChunksInOrder ==
  mode = "stream" =>
    \A i \in CallIndices :
      /\ Len(calls[i].chunks) = Len(calls[i].emitted)
      /\ \A n \in 1..Len(calls[i].chunks) :
           /\ calls[i].chunks[n].chunk = calls[i].emitted[n]
           /\ calls[i].chunks[n].full = Concat(SubSeq(calls[i].emitted, 1, n))

C7_Witness ==
  /\ mode = "stream" /\ Len(calls) = 2
  /\ Len(calls[1].chunks) = 2 /\ calls[1].chunks[2].full = "ab"
  /\ Len(calls[2].chunks) = 1 /\ calls[2].pc = "streaming"

C8_AllCompleted ==
  (mode = "stream" /\ Returned) =>
    \A i \in CallIndices :
      /\ calls[i].pc = "settled"
      /\ onComplete = "given" => Len(calls[i].done) = 1

C8_NoCallbackAfterReturn == Returned => calls' = calls

(* C8: streamAll has returned only if every active provider has completed, *)
(* its onProviderDone call included, and no callback fires after the       *)
(* return.                                                                 *)
C8_StreamBarrier == [](C8_AllCompleted) /\ [][C8_NoCallbackAfterReturn]_vars

C8_Witness ==
  /\ Returned /\ mode = "stream" /\ onComplete = "given" /\ Len(calls) = 2
  /\ \A i \in CallIndices : Len(calls[i].chunks) = 2 /\ Len(calls[i].done) = 1

IsText(v) == v \notin {NULL, UNDEFINED}

(* C9: every result of a returned ResultSet is successful exactly when it  *)
(* has a content text and no error, and failed exactly when its content is *)
(* null and it has an error text.                                          *)
C9_ContentXorError ==
  Returned =>
    \A j \in 1..Len(responses) :
      LET r == responses[j][2]
      IN /\ r.success => (IsText(r.content) /\ ~IsText(r.error))
         /\ ~r.success => (r.content = NULL /\ IsText(r.error))

(* C10: synthesize on a ResultSet without any result that is successful    *)
(* with a non-empty content returns the fixed fallback message, no primary *)
(* key, modelCount 0 and no disagreements.                                 *)
C10_FallbackWhenNoneSuccessful ==
  (roundState = "synthesized"
   /\ \A j \in 1..Len(responses) :
        ~(responses[j][2].success /\ responses[j][2].content \notin {NULL, UNDEFINED, ""}))
  => /\ synthesized.content = AllFailedMessage
     /\ synthesized.primaryModel = NULL
     /\ synthesized.modelCount = 0
     /\ synthesized.disagreements = <<>>

C10_Witness ==
  /\ roundState = "synthesized" /\ Len(responses) = 2
  /\ ~responses[1][2].success
  /\ responses[2][2].success /\ responses[2][2].content = ""
  /\ synthesized.primaryModel = NULL

(* a result that is successful with a non-empty content *)
Qualifies(r) == r.success /\ r.content \notin {NULL, UNDEFINED, ""}

QualifyingIndices == {i \in 1..Len(responses) : Qualifies(responses[i][2])}

(* C11: synthesize selects as primary the successful non-empty result with *)
(* the lowest latency, and among several with the lowest latency the one   *)
(* that comes first in the key order of the ResultSet.                     *)
C11_PrimaryIsFastest ==
  (roundState = "synthesized" /\ QualifyingIndices # {}) =>
    \E j \in QualifyingIndices :
      /\ synthesized.primaryModel = responses[j][1]
      /\ synthesized.content = responses[j][2].content
      /\ \A i \in QualifyingIndices :
           \/ responses[j][2].latency < responses[i][2].latency
           \/ responses[j][2].latency = responses[i][2].latency /\ j <= i

C11_Witness ==
  /\ roundState = "synthesized" /\ Len(responses) = 3
  /\ \A i \in 1..3 : Qualifies(responses[i][2])
  /\ responses[1][2].latency = 300
  /\ responses[2][2].latency = 100
  /\ responses[3][2].latency = 200
  /\ synthesized.primaryModel = responses[2][1]

(* the SynthesizedResult names as primary an entry that satisfies ok and   *)
(* carries its content                                                     *)
PrimaryAmong(ok(_)) ==
  /\ synthesized.primaryModel # NULL
  /\ synthesized.content # AllFailedMessage
  /\ \E j \in 1..Len(responses) :
       /\ responses[j][1] = synthesized.primaryModel
       /\ ok(responses[j][2])
       /\ synthesized.content = responses[j][2].content

Succeeded(r) == r.success

(* C12 as stated: after a dispatched round and synthesize, if at least one *)
(* provider succeeded the SynthesizedResult has a non-null primary key     *)
(* naming a successful provider and carries its content; if every provider *)
(* failed it is the fixed fallback message.  Stated for the rounds over the *)
(* adapters of src/api.                                                    *)
C12_AnySuccessGivesPrimary ==
  (roundState = "synthesized" /\ "chatgpt" \notin ObjKeys(responses)) =>
    IF \E j \in 1..Len(responses) : Succeeded(responses[j][2])
    THEN PrimaryAmong(Succeeded)
    ELSE synthesized.content = AllFailedMessage /\ synthesized.primaryModel = NULL

(* C12 amended: after a dispatched round and synthesize, if at least one   *)
(* provider succeeded with a non-empty content the SynthesizedResult has a *)
(* non-null primary key naming such a provider and carries its content;    *)
(* otherwise it is the fixed fallback message, and the round's synthesis   *)
(* never ends in an error.                                                 *)
C12_NonEmptySuccessGivesPrimary ==
  roundState = "synthesized" =>
    IF QualifyingIndices # {}
    THEN PrimaryAmong(Qualifies)
    ELSE synthesized.content = AllFailedMessage /\ synthesized.primaryModel = NULL

C12_Witness ==
  /\ roundState = "synthesized" /\ mode = "stream" /\ Len(responses) = 2
  /\ ~responses[1][2].success
  /\ Qualifies(responses[2][2])
  /\ synthesized.primaryModel = responses[2][1]

(* the positions of the request whose key is registered and configured *)
ActivePositions ==
  {i \in 1..Len(selectedModels) :
     selectedModels[i] \in ModelKeys /\ selectedModels[i] \in configured}

(* the n-th of these positions, counted from the front *)
NthActivePosition(n) ==
  CHOOSE i \in ActivePositions : Cardinality({j \in ActivePositions : j <= i}) = n

(* C13: getActiveModels returns exactly the requested keys that are known  *)
(* to the registry and configured, in the caller's input order; unknown    *)
(* and unconfigured keys are dropped without any error.                    *)
C13_ResolveKeepsOrder ==
  roundState = "resolved" =>
    /\ Len(activeModels) = Cardinality(ActivePositions)
    /\ \A n \in 1..Len(activeModels) :
         activeModels[n] = selectedModels[NthActivePosition(n)]
    /\ roundError = NoError

C13_Witness ==
  /\ roundState = "resolved" /\ Len(selectedModels) = 3
  /\ selectedModels[1] \in ModelKeys \ configured
  /\ selectedModels[2] \in configured
  /\ selectedModels[3] \notin ModelKeys
  /\ activeModels = <<selectedModels[2]>>

(* findDisagreements was called on two successful responses, the first    *)
(* with the text a and the second with the text b                          *)
CalledOnPair(a, b) ==
  /\ found # Nothing
  /\ Len(responses) = 2
  /\ responses[1][2].success /\ responses[1][2].content = a
  /\ responses[2][2].success /\ responses[2][2].content = b

(* the stances {first provider: positive, second provider: negative} *)
OpposedStances ==
  <<<<responses[1][1], "positive">>, <<responses[2][1], "negative">>>>

(* C14 as stated: on provider A "X is better than Y for this problem" and  *)
(* provider B "X is worse and has many issues" findDisagreements reports a *)
(* Disagreement for a shared topic word with stances {A: positive, B:      *)
(* negative}.                                                              *)
C14_ExampleReportsDisagreement ==
  CalledOnPair(ExampleA, ExampleB) =>
    \E n \in 1..Len(found.value) : found.value[n].stances = OpposedStances

(* C14 amended: on these two responses findDisagreements reports nothing   *)
(* (they share no word of four or more letters, and the text of A holds    *)
(* both "better" and "problem"); on A "Xylo is better than Y for this      *)
(* task" and B "Xylo is worse and has many issues" it reports exactly one  *)
(* Disagreement, for the shared topic word "xylo", with stances            *)
(* {A: positive, B: negative}.                                             *)
C14_SharedWordReportsDisagreement ==
  /\ CalledOnPair(ExampleA, ExampleB) => found.value = <<>>
  /\ CalledOnPair(SharedWordA, SharedWordB) =>
       found.value = <<[topic |-> "xylo",
                        models |-> <<responses[1][1], responses[2][1]>>,
                        stances |-> OpposedStances,
                        type |-> "stance"]>>

C14_Witness ==
  /\ CalledOnPair(SharedWordA, SharedWordB)
  /\ Len(found.value) = 1
  /\ found.value[1].topic = "xylo"

(* C15: findDisagreements returns an empty sequence whenever fewer than   *)
(* two results of the ResultSet are successful with a non-empty content,   *)
(* whatever the contents are.                                              *)
C15_FewerThanTwoGivesNone ==
  (found # Nothing /\ Cardinality(QualifyingIndices) < 2) => found.value = <<>>

C15_Witness ==
  /\ found = ReturnValue(<<>>) /\ Len(responses) = 3
  /\ Cardinality(QualifyingIndices) = 1
  /\ \E i \in QualifyingIndices : responses[i][2].content = SixTopicsGood
  /\ \E i \in 1..3 : responses[i][2].success /\ responses[i][2].content = ""
  /\ \E i \in 1..3 : ~responses[i][2].success

(* the topic words of the i-th result, in the order of the text *)
TopicWordsOf(i) == MatchTopicWords(ToLowerCase(responses[i][2].content), 1)

Discovered == UNION {Range(TopicWordsOf(i)) : i \in QualifyingIndices}

(* the first qualifying response that holds the topic word t *)
FirstResponse(t) ==
  CHOOSE i \in QualifyingIndices :
    /\ t \in Range(TopicWordsOf(i))
    /\ \A j \in QualifyingIndices : j < i => t \notin Range(TopicWordsOf(j))

FirstPosition(t) ==
  LET w == TopicWordsOf(FirstResponse(t))
  IN CHOOSE p \in 1..Len(w) : w[p] = t /\ \A q \in 1..(p - 1) : w[q] # t

DiscoveredBefore(s, t) ==
  \/ FirstResponse(s) < FirstResponse(t)
  \/ FirstResponse(s) = FirstResponse(t) /\ FirstPosition(s) < FirstPosition(t)

StanceOf(i, t) == getStance(responses[i][2].content, t)

(* the topics on which one qualifying response is positive and one negative *)
QualifyingTopics ==
  {t \in Discovered :
     \E i, j \in QualifyingIndices :
       StanceOf(i, t) = "positive" /\ StanceOf(j, t) = "negative"}

ReportedTopics == [n \in 1..Len(found.value) |-> found.value[n].topic]

(* C16: findDisagreements returns at most 5 Disagreements; they are the    *)
(* first 5 qualifying topics in discovery order (the order in which topic  *)
(* words are first met while scanning the qualifying responses in the      *)
(* order of the ResultSet), and no topic appears twice.                    *)
C16_FirstFiveInDiscoveryOrder ==
  found # Nothing =>
    /\ Len(ReportedTopics) <= MaxDisagreements
    /\ Range(ReportedTopics) \subseteq QualifyingTopics
    /\ \A m, n \in 1..Len(ReportedTopics) :
         m < n => DiscoveredBefore(ReportedTopics[m], ReportedTopics[n])
    /\ \A t \in QualifyingTopics \ Range(ReportedTopics) :
         /\ Len(ReportedTopics) = MaxDisagreements
         /\ \A n \in 1..Len(ReportedTopics) : DiscoveredBefore(ReportedTopics[n], t)

C16_Witness ==
  /\ found # Nothing
  /\ Len(found.value) = 5
  /\ Cardinality(QualifyingTopics) = 6
  /\ ReportedTopics = <<"aaaa", "bbbb", "cccc", "dddd", "eeee">>

(* the providers of the ResultSet that qualify *)
QualifyingKeys == {responses[i][1] : i \in QualifyingIndices}

(* C17: every Disagreement returned by findDisagreements has a stances     *)
(* mapping with at least one positive and at least one negative stance and *)
(* no neutral entry; the mapping holds only providers that are successful  *)
(* with a non-empty content, and the participating providers (models) are  *)
(* exactly the keys of the mapping.                                        *)
C17_StancesOpposedAndNonNeutral ==
  found # Nothing =>
    \A n \in 1..Len(found.value) :
      LET d == found.value[n]
      IN /\ \E j \in 1..Len(d.stances) : d.stances[j][2] = "positive"
         /\ \E j \in 1..Len(d.stances) : d.stances[j][2] = "negative"
         /\ \A j \in 1..Len(d.stances) :
              /\ d.stances[j][2] \in {"positive", "negative"}
              /\ d.stances[j][1] \in QualifyingKeys
         /\ Len(d.models) = Len(d.stances)
         /\ \A j \in 1..Len(d.stances) : d.models[j] = d.stances[j][1]

(* a Disagreement is reported on three qualifying responses of which one   *)
(* is neutral on the topic                                                 *)
C17_Witness ==
  /\ found # Nothing
  /\ Len(responses) = 3 /\ Cardinality(QualifyingIndices) = 3
  /\ \E i \in 1..3 : responses[i][2].content = SharedWordC
  /\ \E n \in 1..Len(found.value) :
       found.value[n].topic = "xylo" /\ Len(found.value[n].models) = 2

(* a step that is a call of synthesize *)
SynthesizeCall ==
  roundState' # roundState /\ roundState' \in {"synthesized", "resynthesized"}

Initiated(j) ==
  /\ j <= Len(calls)
  /\ calls[j].model = activeModels[j]
  /\ calls[j].startTime = calls[1].startTime

(* C19: in queryAll and streamAll the adapter call of every active         *)
(* provider is initiated before any dispatched call has settled: from the  *)
(* dispatch on, whatever the calls have done, every active provider has    *)
(* its call, started at the time of the dispatch.                          *)
C19_ParallelDispatch ==
  (roundState = "dispatched" \/ calls # <<>>) =>
    /\ Len(calls) = Len(activeModels)
    /\ \A j \in 1..Len(activeModels) : Initiated(j)

(* one call has settled, later than the dispatch, while the other is still *)
(* in flight                                                               *)
C19_Witness ==
  /\ roundState = "dispatched"
  /\ Len(activeModels) = 2
  /\ calls[1].promise # Pending
  /\ calls[2].pc = "fetching" /\ calls[2].promise = Pending
  /\ now > calls[2].startTime

(* C20: for every selection, one that repeats a key included, a round     *)
(* dispatches exactly one adapter call per active provider: no two calls   *)
(* go to the same provider, and the number of calls dispatched is the      *)
(* number of entries of the returned ResultSet.                            *)
C20_OneCallPerProvider ==
  /\ \A i, j \in 1..Len(calls) : i # j => calls[i].model # calls[j].model
  /\ roundState \in {"returned", "synthesized"} => Len(calls) = Len(responses)

(* call i, to an adapter of src/api, settles in this step with a           *)
(* ProviderResult                                                          *)
SettlesWithResult(i) ==
  /\ i <= Len(calls')
  /\ calls[i].model # "chatgpt"
  /\ calls[i].promise = Pending
  /\ calls'[i].promise.status = "fulfilled"

(* C21: every ProviderResult, successful or failed, carries a latency that *)
(* is a non-negative integer, the wall-clock time between the dispatch of  *)
(* its own call and the settlement of its own call.                        *)
C21_EveryResultTimed ==
  [][\A i \in 1..Len(calls) :
       SettlesWithResult(i) =>
         /\ calls'[i].promise.value.latency \in Nat
         /\ calls'[i].promise.value.latency = now - calls[i].startTime]_vars

(* the results of the ResultSet whose success is true *)
SuccessIndices == {i \in 1..Len(responses) : responses[i][2].success}

Synthesized == roundState \in {"synthesized", "resynthesized"}

(* C22 as stated: the modelCount returned by synthesize equals the number  *)
(* of results of the ResultSet whose success is true.                      *)
C22_CountsEverySuccess ==
  Synthesized => synthesized.modelCount = Cardinality(SuccessIndices)

(* C22 amended: the modelCount returned by synthesize equals the number of *)
(* results of the ResultSet that are successful with a non-empty content.  *)
C22_CountsNonEmptySuccesses ==
  Synthesized => synthesized.modelCount = Cardinality(QualifyingIndices)

C22_Witness ==
  /\ Synthesized /\ Len(responses) = 3
  /\ Cardinality(SuccessIndices) = 2
  /\ Cardinality(QualifyingIndices) = 1
  /\ synthesized.modelCount = 1

(* C23: the disagreements synthesize attaches are what findDisagreements   *)
(* returns for the full ResultSet, all entries in their order, not for the *)
(* successful entries synthesize sorted to pick the primary.               *)
C23_DisagreementsOfFullResultSet ==
  (Synthesized /\ found # Nothing) => synthesized.disagreements = found.value

(* the primary is not the first entry and the detector reports *)
C23_Witness ==
  /\ Synthesized /\ found # Nothing
  /\ Len(responses) = 3 /\ ~responses[1][2].success
  /\ synthesized.primaryModel = responses[3][1]
  /\ Len(found.value) = 1
  /\ found.value[1].models = <<responses[2][1], responses[3][1]>>

(* the selected providers of the registry whose credential is absent *)
SelectedWithoutCredential == (Range(selectedModels) \cap ModelKeys) \ configured

(* C24 as stated: a selected provider whose credential is absent does not  *)
(* abort the round, has no network request attempted for it and yields a   *)
(* failed ProviderResult under its key.                                    *)
C24_AbsentCredentialGivesFailedResult ==
  (Returned /\ "chatgpt" \notin ObjKeys(responses)) =>
    \A k \in SelectedWithoutCredential :
      /\ \A i \in 1..Len(calls) : calls[i].model # k
      /\ k \in ObjKeys(responses)
      /\ ~ObjGet(responses, k).success

(* C24 amended: a selected provider whose credential is absent does not    *)
(* abort the round (the round throws only when no selected provider is     *)
(* active) and has no adapter call, hence no network request, made for it; *)
(* it yields no ProviderResult: the returned ResultSet has no entry under  *)
(* its key.                                                                *)
C24_AbsentCredentialLeftOut ==
  /\ roundState = "threw" => activeModels = <<>>
  /\ \A k \in SelectedWithoutCredential :
       /\ \A i \in 1..Len(calls) : calls[i].model # k
       /\ k \notin ObjKeys(responses)

C24_Witness ==
  /\ Returned
  /\ Len(selectedModels) = 2
  /\ selectedModels[1] \in SelectedWithoutCredential
  /\ selectedModels[2] \in configured
  /\ ObjKeys(responses) = {selectedModels[2]}

(* a line that is a frame with a payload that does not parse *)
FailsToParse(line) == line.data /\ line.payload = "invalid"

(* a line that is a well-formed frame carrying a fragment of text *)
WellFormed(line) ==
  /\ line.data /\ line.payload = "json"
  /\ line.type = "content_block_delta"
  /\ line.text \notin {NULL, UNDEFINED, ""}

RECURSIVE FragmentsOf(_)
(* the fragments of the well-formed frames among the lines, in order *)
FragmentsOf(lines) ==
  IF lines = <<>> THEN <<>>
  ELSE (IF WellFormed(Head(lines)) THEN <<Head(lines).text>> ELSE <<>>)
       \o FragmentsOf(Tail(lines))

(* C25: in the streamChat of every adapter a frame that fails to parse is  *)
(* skipped for that frame only: whatever frames failed to parse, the       *)
(* fragments of all well-formed frames, those after a failed frame         *)
(* included, are handed to onChunk in order, are accumulated, and make up  *)
(* the content of the result when the stream completes.                    *)
C25_ParseFailureSkipsOneFrame ==
  (Len(calls) = 1 /\ calls[1].model # "chatgpt") =>
    /\ [n \in 1..Len(calls[1].chunks) |-> calls[1].chunks[n].chunk] = FragmentsOf(frames)
    /\ calls[1].fullContent = Concat(FragmentsOf(frames))
    /\ (calls[1].promise.status = "fulfilled" /\ calls[1].promise.value.success) =>
         calls[1].promise.value.content = Concat(FragmentsOf(frames))

(* a frame failed to parse between two well-formed frames and the stream   *)
(* completed                                                               *)
C25_Witness ==
  /\ Len(calls) = 1 /\ calls[1].model # "chatgpt"
  /\ Len(frames) = 3
  /\ WellFormed(frames[1]) /\ FailsToParse(frames[2]) /\ WellFormed(frames[3])
  /\ Len(calls[1].chunks) = 2
  /\ calls[1].promise.status = "fulfilled"
  /\ calls[1].promise.value.content = frames[1].text \o frames[3].text

(* call i, to an adapter of src/api, was answered with a non-2xx response *)
(* and has its ProviderResult                                              *)
AnsweredNon2xx(i) ==
  /\ calls[i].model # "chatgpt"
  /\ calls[i].answer # Nothing
  /\ calls[i].answer.kind = "http" /\ ~calls[i].answer.ok
  /\ calls[i].promise.status = "fulfilled"

(* C26: when a provider answers with a non-2xx response that carries its   *)
(* own error text, the error message of the failed ProviderResult is that  *)
(* text, for every adapter and every error text; without such a text the   *)
(* message names the provider and the status code.                         *)
C26_ProviderErrorTextKept ==
  \A i \in 1..Len(calls) :
    AnsweredNon2xx(i) =>
      LET result == calls[i].promise.value
          text == calls[i].answer.errText
      IN /\ ~result.success
         /\ IF text \notin {NULL, UNDEFINED, ""}
            THEN result.error = text
            ELSE /\ Includes(result.error, models[calls[i].model].name)
                 /\ Includes(result.error, NumToStr(calls[i].answer.status))

(* the error message the adapter of k gives, in the mode of the round,     *)
(* when its fetch rejects                                                  *)
TransportMessage(k) ==
  IF mode = "query"
  THEN MessageOf(ApiChat(k, TRUE, options, FetchFail).reason)
  ELSE MessageOf(ApiStreamOpen(k, TRUE, FetchFail).reason)

(* call i, to an adapter of src/api, was answered and has its              *)
(* ProviderResult                                                          *)
Answered(i) ==
  /\ calls[i].model # "chatgpt"
  /\ calls[i].answer # Nothing
  /\ calls[i].promise.status = "fulfilled"

(* C27: for every adapter a network/CORS-class failure of the request      *)
(* yields a failed ProviderResult with an error message, and no result of  *)
(* a request that was answered (a provider error, a malformed answer)      *)
(* carries that message.                                                   *)
C27_TransportFailureDistinct ==
  \A i \in 1..Len(calls) :
    Answered(i) =>
      LET result == calls[i].promise.value
      IN IF calls[i].answer.kind = "fetchfail"
         THEN ~result.success /\ result.error \notin {NULL, UNDEFINED, ""}
         ELSE result.error # TransportMessage(calls[i].model)

(* the lowercased content getStance was called on *)
StanceContext == ToLowerCase(responses[1][2].content)

(* the 1-based positions at which w occurs in text *)
OccurrencesOf(w, text) ==
  {p \in 1..(Len(text) - Len(w) + 1) : SubSeq(text, p, p + Len(w) - 1) = w}

(* the 1-based position of the first occurrence of the topic *)
FirstOccurrence == CHOOSE p \in OccurrencesOf(found.topic, StanceContext) :
                     \A q \in OccurrencesOf(found.topic, StanceContext) : p <= q

(* the window: from 100 characters before the start of the first           *)
(* occurrence to 100 characters after that start, clamped to the content   *)
WindowOfTopic ==
  SubSeq(StanceContext,
         IF FirstOccurrence > 100 THEN FirstOccurrence - 100 ELSE 1,
         IF FirstOccurrence + 99 < Len(StanceContext)
         THEN FirstOccurrence + 99 ELSE Len(StanceContext))

PositiveLexicon == {"better", "best", "good", "excellent", "recommend", "prefer", "advantage"}

NegativeLexicon == {"worse", "worst", "bad", "avoid", "disadvantage", "problem", "issue"}

RECURSIVE SumOver(_, _)
(* the number of occurrences in text of the words of the set *)
SumOver(words, text) ==
  IF words = {} THEN 0
  ELSE LET w == CHOOSE x \in words : TRUE
       IN Cardinality(OccurrencesOf(w, text)) + SumOver(words \ {w}, text)

(* the number of words of the set that occur in text *)
PresentIn(words, text) == Cardinality({w \in words : OccurrencesOf(w, text) # {}})

StanceBy(pos, neg) ==
  IF pos > neg THEN "positive" ELSE IF neg > pos THEN "negative" ELSE "neutral"

StanceCalled == found # Nothing /\ found.type = "stance"

(* C28 as stated: the stance is computed from the window around the first *)
(* occurrence of the topic word in the lowercased content: positive when   *)
(* the number of occurrences of positive-lexicon words in the window       *)
(* exceeds the number of occurrences of negative-lexicon words, negative   *)
(* in the reverse case, neutral when equal; a content without the word     *)
(* gets no stance.                                                         *)
C28_StanceByOccurrences ==
  StanceCalled =>
    IF OccurrencesOf(found.topic, StanceContext) = {} THEN found.value = NULL
    ELSE found.value = StanceBy(SumOver(PositiveLexicon, WindowOfTopic),
                                SumOver(NegativeLexicon, WindowOfTopic))

(* C28 amended: the same, with each lexicon word counted once however      *)
(* often it occurs: positive when more positive-lexicon words than         *)
(* negative-lexicon words occur in the window, negative in the reverse     *)
(* case, neutral when equal; the window runs from 100 characters before    *)
(* the start of the first occurrence to 100 characters after that start.   *)
C28_StanceByWordsPresent ==
  StanceCalled =>
    IF OccurrencesOf(found.topic, StanceContext) = {} THEN found.value = NULL
    ELSE found.value = StanceBy(PresentIn(PositiveLexicon, WindowOfTopic),
                                PresentIn(NegativeLexicon, WindowOfTopic))

(* "bad" lies outside the window and "good" inside: positive *)
C28_Witness ==
  /\ StanceCalled /\ found.topic = "xylo" /\ found.value = "positive"
  /\ Len(StanceContext) > 2 * StanceWindow
  /\ OccurrencesOf("bad", StanceContext) # {}
  /\ OccurrencesOf("bad", WindowOfTopic) = {}

(* the cumulativeText of the last onChunk call made for call i, the empty *)
(* text when none was made                                                 *)
LastCumulativeText(i) ==
  IF calls[i].chunks = <<>> THEN ""
  ELSE calls[i].chunks[Len(calls[i].chunks)].full

StreamSucceeded(i) ==
  /\ mode = "stream"
  /\ calls[i].pc = "settled"
  /\ calls[i].promise.status = "fulfilled"
  /\ calls[i].promise.value.success

(* C29: for a provider whose stream completes successfully the content of *)
(* its ProviderResult, as streamModel builds it and as the returned        *)
(* ResultSet holds it, equals the cumulativeText of the last onChunk call  *)
(* made for that provider, and is the empty text when no fragment was      *)
(* emitted.                                                                *)
C29_ContentIsLastCumulativeText ==
  \A i \in CallIndices :
    StreamSucceeded(i) =>
      /\ calls[i].promise.value.content = LastCumulativeText(i)
      /\ (calls[i].emitted = <<>>) => calls[i].promise.value.content = ""
      /\ Returned => ResponseOf(i).content = LastCumulativeText(i)

(* a returned round of two providers: one delivered "a" then "ab", the     *)
(* other completed without a fragment                                      *)
C29_Witness ==
  /\ Returned /\ mode = "stream" /\ Len(calls) = 2
  /\ StreamSucceeded(1) /\ StreamSucceeded(2)
  /\ Len(calls[1].chunks) = 2 /\ ResponseOf(1).content = "ab"
  /\ calls[2].answer # Nothing /\ calls[2].emitted = <<>>
  /\ ResponseOf(2).content = ""

FailedCall(i) ==
  /\ calls[i].pc = "settled"
  /\ \/ calls[i].promise.status = "rejected"
     \/ ~calls[i].promise.value.success

(* C30: once dispatched, a round runs to completion for all active        *)
(* providers: when every dispatched adapter call is eventually answered,   *)
(* queryAll / streamAll eventually return, and every call, also one whose  *)
(* sibling has failed or completed, reaches its own settlement.            *)
C30_RoundRunsToCompletion ==
  /\ (roundState = "dispatched") ~> Returned
  /\ \A i \in 1..MaxSelected :
       (i \in CallIndices /\ calls[i].pc # "settled")
         ~> (i \in CallIndices /\ calls[i].pc = "settled")
  /\ \A i \in 1..MaxSelected :
       (i \in CallIndices /\ calls[i].pc # "settled"
          /\ \E j \in CallIndices : FailedCall(j))
         ~> (Returned /\ i \in CallIndices /\ calls[i].pc = "settled")

(* a returned round whose first provider failed and whose second provider *)
(* delivered its answer                                                    *)
C30_Witness ==
  /\ Returned /\ Len(calls) = 2
  /\ FailedCall(1)
  /\ calls[2].pc = "settled" /\ ~FailedCall(2)
  /\ ~ResponseOf(1).success /\ ResponseOf(2).success

(* C31: in streamAll the ProviderResult handed to onProviderDone for key *)
(* k has the success flag and the content of the result stored under k in  *)
(* the returned ResultSet, also when the onProviderDone callback throws.   *)
C31_DoneResultIsStored ==
  (mode = "stream" /\ Returned) =>
    \A i \in CallIndices :
      (calls[i].done # <<>> /\ calls[i].model # "chatgpt") =>
        /\ ResponseOf(i).success = calls[i].done[1].success
        /\ ResponseOf(i).content = calls[i].done[1].content

(* C32: in every adapter's streamChat the fragments delivered to onChunk *)
(* and the final content do not depend on how the byte stream is divided   *)
(* into reads: once every line sent has been read, the onChunk calls are   *)
(* those the undivided lines give, a line cut by the end of a read being   *)
(* delivered exactly once, and so is the content of the result.            *)
C32_ReadDivisionIrrelevant ==
  (Len(calls) = 1 /\ calls[1].model # "chatgpt" /\ calls[1].cut = Nothing) =>
    LET undivided == ChunkCalls(calls[1].model, frames, "", FALSE)
    IN /\ calls[1].chunks = undivided
       /\ StreamSucceeded(1) => calls[1].promise.value.content = FullAfter("", undivided)

(* no step in which an onChunk call of one provider throws changes the   *)
(* call of another provider                                                *)
C33_ThrowLeavesSiblings ==
  \A i \in CallIndices :
    (calls'[i].thrown /\ calls'[i] # calls[i]) =>
      \A j \in CallIndices \ {i} : calls'[j] = calls[j]

(* a provider for which an onChunk call threw still has every fragment it *)
(* sent accumulated, in its running text and in the content of its result  *)
C33_ThrowKeepsFragments ==
  mode = "stream" =>
    \A i \in CallIndices :
      (calls[i].thrown /\ calls[i].model # "chatgpt") =>
        /\ calls[i].fullContent = Concat(calls[i].emitted)
        /\ StreamSucceeded(i) => calls[i].promise.value.content = Concat(calls[i].emitted)

(* C33: in streamAll an exception thrown by the caller's onChunk callback *)
(* during one provider's fragment does not fail or alter any other         *)
(* provider's result, and that provider's remaining fragments are still    *)
(* accumulated into its final content.                                     *)
C33_ChunkExceptionContained ==
  [](C33_ThrowKeepsFragments) /\ [][C33_ThrowLeavesSiblings]_vars

(* an onChunk call of provider 1 threw; provider 1 completed with both of  *)
(* its fragments and provider 2 succeeded with its own text                *)
C33_Witness ==
  /\ Returned /\ mode = "stream" /\ Len(calls) = 2
  /\ calls[1].thrown /\ ~calls[2].thrown
  /\ StreamSucceeded(1) /\ ResponseOf(1).content = "ab"
  /\ StreamSucceeded(2) /\ ResponseOf(2).content = "a"

(* C34: whenever synthesize returns a non-null primary key, that key is *)
(* a key of the input ResultSet, its result is successful with non-empty   *)
(* content, the returned content equals that result's content, and         *)
(* modelCount is at least 1; the primary key is null exactly when          *)
(* modelCount is 0.                                                        *)
C34_PrimaryIsAnsweringEntry ==
  Synthesized =>
    /\ synthesized.primaryModel # NULL =>
         /\ synthesized.primaryModel \in ObjKeys(responses)
         /\ ObjGet(responses, synthesized.primaryModel).success
         /\ Truthy(ObjGet(responses, synthesized.primaryModel).content)
         /\ synthesized.content = ObjGet(responses, synthesized.primaryModel).content
         /\ synthesized.modelCount >= 1
    /\ synthesized.primaryModel = NULL <=> synthesized.modelCount = 0

(* the primary is the third entry of a ResultSet whose first entry failed *)
(* and whose second entry succeeded later                                  *)
C34_Witness ==
  /\ Synthesized /\ Len(responses) = 3
  /\ ~responses[1][2].success
  /\ responses[2][2].success /\ Truthy(responses[2][2].content)
  /\ synthesized.primaryModel = responses[3][1]
  /\ synthesized.modelCount = 2

UserMessages(messages) == SelectSeq(messages, LAMBDA m : m.role = "user")

C35_OneRoundInFlight ==
  /\ Len(rounds) <= 1
  /\ app.isLoading <=> rounds # <<>>

(* while isLoading is true no round is started and no user message added; *)
(* the step that ends a round resets isLoading                             *)
C35_LoadingGuardsSend ==
  /\ app.isLoading =>
       /\ Len(rounds') <= Len(rounds)
       /\ \A id \in DOMAIN app.arrays :
            UserMessages(app'.arrays[id]) = UserMessages(app.arrays[id])
  /\ Len(rounds') < Len(rounds) => ~app'.isLoading

(* C35: in the app at most one orchestration round is in flight at a time: *)
(* sendMessage invoked while isLoading is true changes no state and        *)
(* dispatches nothing, and isLoading is reset to false after every round,  *)
(* whether the round returned or threw.                                    *)
C35_SingleRound == [](C35_OneRoundInFlight) /\ [][C35_LoadingGuardsSend]_vars

(* a round threw: the user message is there, nothing was saved, and the   *)
(* app is ready for the next message                                       *)
C35_Witness ==
  /\ ~app.isLoading /\ rounds = <<>>
  /\ Len(Messages(app)) = 1 /\ Messages(app)[1].role = "user"
  /\ app.chatHistory = <<>>

HistoryIds(chatHistory) == {chatHistory[i].id : i \in 1..Len(chatHistory)}

(* the rest of a sendMessage runs and adds its assistant message *)
AnswerAdded == Len(rounds') < Len(rounds) /\ app'.arrays # app.arrays

(* C36: the assistant message produced by a round is appended to, and     *)
(* saved under the chat id of, the conversation that holds the user        *)
(* message which started the round, also when newChat, loadChat or         *)
(* clearAllData runs while the round is in flight.                         *)
C36_AnswerJoinsItsConversation ==
  [][AnswerAdded =>
       LET id == Head(rounds).chatId
       IN /\ Len(app'.arrays[id]) = Len(app.arrays[id]) + 1
          /\ app'.arrays[id][Len(app'.arrays[id])].role = "assistant"
          /\ app'.chat_history # Nothing
          /\ \E i \in 1..Len(app'.chat_history.value) :
               /\ app'.chat_history.value[i].id = id
               /\ app'.chat_history.value[i].messages = app'.arrays[id]]_vars

(* C37: after deleteChat(id) completes, neither the in-memory chatHistory *)
(* nor the stored chat_history contains an entry with that id, including   *)
(* when id is the current chat and it has messages.                        *)
C37_DeletedChatIsGone ==
  [][\A chatId \in ShownChats :
       app' = deleteChat(app, chatId) =>
         /\ chatId \notin HistoryIds(app'.chatHistory)
         /\ chatId \notin HistoryIds(app'.chat_history.value)]_vars

C38_HistoryBounded ==
  /\ Len(app.chatHistory) <= HistoryLimit
  /\ \A i, j \in 1..Len(app.chatHistory) :
       app.chatHistory[i].id = app.chatHistory[j].id => i = j
  /\ \A i \in 1..Len(app.chatHistory) : app.arrays[app.chatHistory[i].id] # <<>>

(* a step that saves the chat on the screen: the history changes and the  *)
(* step is neither a deletion nor the clearing of all data                 *)
Saves ==
  /\ app'.chatHistory # app.chatHistory
  /\ \A chatId \in ShownChats : app' # deleteChat(app, chatId)
  /\ app'.chatHistory # <<>>

C38_SavedInPlaceOrAtFront ==
  Saves =>
    LET c == app.currentChatId
        H == app.chatHistory
        G == app'.chatHistory
    IN IF c \in HistoryIds(H)
       THEN /\ Len(G) = Len(H)
            /\ \A i \in 1..Len(H) : G[i].id = H[i].id
       ELSE /\ G[1].id = c
            /\ Len(G) = Min(Len(H) + 1, HistoryLimit)
            /\ \A i \in 2..Len(G) : G[i] = H[i - 1]

(* C38: after any sequence of sendMessage rounds, newChat, loadChat and   *)
(* deleteChat, chatHistory holds at most 50 entries and no two entries     *)
(* share a chat id: saving a chat already in the history replaces its      *)
(* entry in place, saving a new chat puts it at the front, and a chat with *)
(* no messages is never saved.                                             *)
C38_HistoryWellFormed == [](C38_HistoryBounded) /\ [][C38_SavedInPlaceOrAtFront]_vars

(* a chat of this session was saved on top of a full stored history, whose *)
(* oldest chat fell off, and the stored chat 102 was saved again in place  *)
C38_Witness ==
  /\ Len(app.chatHistory) = HistoryLimit
  /\ app.chatHistory[1].id = 1
  /\ app.chatHistory[3].id = 102 /\ Len(app.arrays[102]) = 4
  /\ 100 + HistoryLimit \notin HistoryIds(app.chatHistory)

C39_SelectionWellFormed ==
  /\ Len(app.selectedModels) >= 1
  /\ \A i, j \in 1..Len(app.selectedModels) :
       app.selectedModels[i] = app.selectedModels[j] => i = j
  /\ Len(app.selectedModels) = 1 => toggleModel(app, app.selectedModels[1]) = app

C39_ToggleRemovesOrAppends ==
  \A model \in ModelKeys :
    (app' = toggleModel(app, model) /\ app' # app) =>
      /\ IF \E i \in 1..Len(app.selectedModels) : app.selectedModels[i] = model
         THEN app'.selectedModels = SelectSeq(app.selectedModels, LAMBDA m : m # model)
         ELSE app'.selectedModels = Append(app.selectedModels, model)
      /\ app'.selected_models = [type |-> "value", value |-> app'.selectedModels]

(* C39: after any sequence of toggleModel calls starting from the default *)
(* selection, selectedModels is non-empty and contains no duplicate key:   *)
(* toggling the only selected model leaves the selection unchanged,        *)
(* toggling a selected model removes it, toggling an unselected model      *)
(* appends it, and the stored selected_models equals the in-memory         *)
(* selection after every change.                                           *)
C39_ToggleKeepsSelection == [](C39_SelectionWellFormed) /\ [][C39_ToggleRemovesOrAppends]_vars

(* three models were removed and one was put back behind the last one *)
C39_Witness ==
  /\ app.selectedModels = <<"grok", "chatgpt">>
  /\ app.selected_models = [type |-> "value", value |-> <<"grok", "chatgpt">>]

====
